---- MODULE Spec2Model ----
(***************************************************************************)
(* Model of the attempt limiter (src/hooks/useRateLimiter.tsx) and of the  *)
(* authentication hook that consults it (useAuth).                         *)
(*                                                                         *)
(* One limiter call is one atomic step: the hook's callbacks are           *)
(* synchronous, and a call is issued from the latest render, so the state  *)
(* updater queued by setAttempts has been applied (in call order) before   *)
(* the next call reads `attempts`.                                         *)
(***************************************************************************)
EXTENDS Integers, Sequences, FiniteSets, TLC

\* ---------------------------------------------------------------- bounds
MaxTime == 5            \* Date.now() ranges over 0..MaxTime in Spec
MaxMaxAttempts == 3     \* config.maxAttempts ranges over 1..MaxMaxAttempts
MaxWindowMs == 2        \* config.windowMs ranges over 1..MaxWindowMs
MaxBlockDurationMs == 2 \* config.blockDurationMs ranges over 1..MaxBlockDurationMs

\* the operation keys of the two limiters of useAuth
Keys == {"signIn", "signUp"}

\* the identifier every caller of the limiter passes: clientId of useAuth
Identifiers == {"user"}

VARIABLES
  now,           \* Date.now()
  localStorage,  \* durable store: storage key -> stored string
  attempts,      \* per hook (operation key): its useState Map,
                 \* identifier -> AttemptRecord
  config,        \* per hook (operation key): its RateLimiterConfig
  last,          \* the last call made and what it returned
  pending,       \* per operation key: backend credential calls in flight
  ticks,         \* number of times the clock of SpecAuth has advanced
  burst,         \* per key and identifier: consecutive recordAttempt calls
                 \* made at one instant, starting from no record
  blockDue,      \* per key and identifier: the time until which a block is
                 \* due after burst reached maxAttempts, or NoTime
  purged,        \* the <<key, identifier>> whose expired block isBlocked has
                 \* purged and for which recordAttempt was not called since
  reloadBlock,   \* per key and identifier: blockedUntil of the block that
                 \* was active when the page last reloaded, or NoTime
  issued,        \* per operation key: n backend credential calls were
                 \* issued at times from `since` to now (n up to
                 \* maxAttempts + 1), all less than windowMs before now;
                 \* counted by SpecCalls
  updaters,      \* per hook instance: the updater that recordAttempt handed
                 \* to setAttempts and that React has not run yet (the
                 \* identifier and the `now` it closes over); no entry when
                 \* none is queued
  \* useSessionTimeout
  user,            \* useAuth().user of the latest render is not null
  sessionConfig,   \* timeoutMs, warningMs, and whether onWarning is given
  timers,          \* the pending setTimeout timers: [kind, due]
  timeoutRef,      \* timeoutRef.current: a timer, or NoTimer for null
  warningRef,      \* warningRef.current
  lastActivityRef, \* lastActivityRef.current
  listening,       \* handleActivity is registered on the document
  \* AppWithSessionTimeout
  showWarning,     \* useState showWarning
  timeRemaining,   \* useState timeRemaining
  interval,        \* the due time of the countdown's setInterval, or NoTime
  signingOut,      \* signOut() was invoked and has not finished
  \* what the properties of the monitor refer to
  lastActivityAt,  \* time of the last authentication, activity signal or
                   \* extendSession() with a user; NoTime without a user
  fired,           \* the last callback or call of the monitor; num is what
                   \* getTimeRemaining returned, and for an activity signal
                   \* or extendSession() the timers pending before it
  nWarning,        \* onWarning invocations since lastActivityAt (up to 2)
  nTimeout,        \* onTimeout invocations since lastActivityAt (up to 2)
  rerendered,      \* the effect ran again since lastActivityAt
  endedAt,         \* the time at which the session ended; NoTime with a user
  expired,         \* onTimeout was invoked since the user was authenticated
  \* AppWithSessionTimeout when React commits later than the handlers run
  queued,          \* the showWarning and timeRemaining that the state
                   \* updates queued since the latest commit lead to, or
                   \* NoUpdate
  modalInterval,   \* the due time of the setInterval of SessionTimeoutModal,
                   \* or NoTime
  nSignOut,        \* signOut() invocations since lastActivityAt (up to 2)
  \* App, the dashboard
  userRole,        \* useUserRole().userRole, "none" for null
  roleLoading,     \* useUserRole().loading
  roleFetches,     \* fetchUserRole() calls that have not returned
  currentPage,     \* useState currentPage
  toast,           \* the title of the last toast of Shipments.handleSubmit
  inserted         \* the userRole of every render whose handleSubmit sent
                   \* an insert

\* the state of the limiters and of useAuth, but for the clock
limiterVars == <<localStorage, attempts, config, last, pending, ticks, burst,
                 blockDue, purged, reloadBlock, issued, updaters>>

sessionVars == <<user, sessionConfig, timers, timeoutRef, warningRef,
                 lastActivityRef, listening, showWarning, timeRemaining,
                 interval, signingOut, lastActivityAt, fired, nWarning,
                 nTimeout, rerendered, endedAt, expired>>

wakeVars == <<queued, modalInterval, nSignOut>>

dashboardVars == <<userRole, roleLoading, roleFetches, currentPage, toast,
                   inserted>>

vars == <<now, limiterVars, sessionVars, wakeVars, dashboardVars>>

\* no time recorded (every time of the model is >= 0)
NoTime == 0 - 1

\* no backend call was issued
NoneIssued == [n |-> 0, since |-> NoTime]

\* null in a timer ref
NoTimer == [kind |-> "none", due |-> NoTime]

\* nothing of the monitor has been called
NoEvent == [op |-> "none", at |-> NoTime, num |-> 0]

\* no state update is queued
NoUpdate == [showWarning |-> FALSE, timeRemaining |-> NoTime]

\* every handler is followed by its commit at once, and the dialog's own
\* interval is left out
WakeUnused ==
  /\ queued = NoUpdate
  /\ modalInterval = NoTime
  /\ nSignOut = 0

\* App is not part of the behaviour: nobody is signed in to the dashboard
DashboardUnmounted ==
  /\ userRole = "none"
  /\ roleLoading = FALSE
  /\ roleFetches = 0
  /\ currentPage = "dashboard"
  /\ toast = "none"
  /\ inserted = {}

\* The component that mounts useSessionTimeout is not part of the behaviour:
\* no user, no timer.
SessionUnmounted ==
  /\ user = FALSE
  /\ sessionConfig = [timeoutMs |-> 2, warningMs |-> 1, onWarning |-> TRUE]
  /\ timers = {}
  /\ timeoutRef = NoTimer
  /\ warningRef = NoTimer
  /\ lastActivityRef = 0
  /\ listening = FALSE
  /\ showWarning = FALSE
  /\ timeRemaining = 0
  /\ interval = NoTime
  /\ signingOut = FALSE
  /\ lastActivityAt = NoTime
  /\ fired = NoEvent
  /\ nWarning = 0
  /\ nTimeout = 0
  /\ rerendered = FALSE
  /\ endedAt = NoTime
  /\ expired = FALSE
  /\ WakeUnused
  /\ DashboardUnmounted

\* ------------------------------------------------------- Map / Storage
MapSet(m, k, v) == [x \in (DOMAIN m) \cup {k} |-> IF x = k THEN v ELSE m[x]]

MapDelete(m, k) == [x \in (DOMAIN m) \ {k} |-> m[x]]

EmptyMap == [x \in {} |-> 0]

\* mutant: the storage key leaves the operation key out
storageKeyWithoutKey(k, identifier) == <<"rateLimit", "", identifier>>

\* `rateLimit_${key}_${identifier}`; neither of the keys 'signIn' and 'signUp'
\* is a prefix of the other, so two keys of this form are equal only when
\* the operation keys and the identifiers are
storageKey(k, identifier) == <<"rateLimit", k, identifier>>

\* JSON.stringify of an AttemptRecord: the fields in insertion order, an
\* undefined blockedUntil is left out
JSONstringify(r) ==
  <<  <<"count", r.count>>, <<"firstAttempt", r.firstAttempt>>,
      <<"blocked", r.blocked>> >>
  \o (IF "blockedUntil" \in DOMAIN r
        THEN << <<"blockedUntil", r.blockedUntil>> >> ELSE << >>)

\* JSON.parse: the object whose properties are the members of the text
JSONparse(s) ==
  [n \in {s[i][1] : i \in DOMAIN s} |->
     s[CHOOSE i \in DOMAIN s : s[i][1] = n][2]]

\* a stored text that is not JSON: JSON.parse throws
Garbage == << <<"}{", 0>> >>

\* the stored text "{}": it parses, to an object without the record's fields
NotARecord == << >>

\* JSON.parse(s) throws
JSONthrows(s) == \E i \in DOMAIN s : s[i][1] = "}{"

\* JavaScript truthiness of an optional number: undefined and 0 are falsy
Truthy(r, field) == field \in DOMAIN r /\ r[field] # 0

\* parsed.blocked && parsed.blockedUntil
BlockedWithUntil(r) ==
  /\ "blocked" \in DOMAIN r
  /\ r.blocked = TRUE
  /\ Truthy(r, "blockedUntil")

\* ------------------------------------------------------------ isBlocked
\* mutant: the store is not consulted, only the in-memory map
isBlockedMemoryOnly(ls, m, k, identifier, t) ==
  [ret |-> IF identifier \notin DOMAIN m THEN FALSE
           ELSE BlockedWithUntil(m[identifier])
                /\ t < m[identifier].blockedUntil,
   ls |-> ls, m |-> m]

\* mutant: a stored block never expires (the comparison with now is missing)
isBlockedIgnoresExpiry(ls, m, k, identifier, t) ==
  LET sk == storageKey(k, identifier)
  IN [ret |-> IF sk \in DOMAIN ls
                THEN BlockedWithUntil(JSONparse(ls[sk]))
                ELSE FALSE,
      ls |-> ls, m |-> m]

\* mutant: an expired block is removed from the store but stays in the map
isBlockedKeepsMap(ls, m, k, identifier, t) ==
  LET sk == storageKey(k, identifier)
  IN IF sk \in DOMAIN ls
       THEN LET parsed == JSONparse(ls[sk])
            IN IF BlockedWithUntil(parsed) /\ t < parsed.blockedUntil
                 THEN [ret |-> TRUE, ls |-> ls, m |-> m]
               ELSE [ret |-> FALSE,
                     ls |-> IF BlockedWithUntil(parsed)
                              THEN MapDelete(ls, sk) ELSE ls,
                     m |-> m]
       ELSE [ret |-> FALSE, ls |-> ls, m |-> m]

\* mutant: a stored value that does not parse is left in the store
isBlockedKeepsGarbage(ls, m, k, identifier, t) ==
  LET sk == storageKey(k, identifier)
      fromMemory ==
        IF identifier \notin DOMAIN m THEN FALSE
        ELSE BlockedWithUntil(m[identifier]) /\ t < m[identifier].blockedUntil
  IN IF sk \in DOMAIN ls /\ ~ JSONthrows(ls[sk])
       THEN LET parsed == JSONparse(ls[sk])
            IN IF BlockedWithUntil(parsed) /\ t < parsed.blockedUntil
                 THEN [ret |-> TRUE, ls |-> ls, m |-> m]
               ELSE IF BlockedWithUntil(parsed) /\ t >= parsed.blockedUntil
                 THEN [ret |-> FALSE, ls |-> MapDelete(ls, sk),
                       m |-> MapDelete(m, identifier)]
               ELSE [ret |-> fromMemory, ls |-> ls, m |-> m]
       ELSE [ret |-> fromMemory, ls |-> ls, m |-> m]

\* The outcome of isBlocked(identifier) at time t from store ls and map m:
\* the value returned, and the store and the map it leaves.
isBlocked(ls, m, k, identifier, t) ==
  LET sk == storageKey(k, identifier)
      fromMemory ==
        IF identifier \notin DOMAIN m THEN FALSE
        ELSE BlockedWithUntil(m[identifier]) /\ t < m[identifier].blockedUntil
  IN IF sk \in DOMAIN ls
       THEN IF JSONthrows(ls[sk])
              \* catch (e): the stored value is removed, the map decides
              THEN [ret |-> fromMemory, ls |-> MapDelete(ls, sk), m |-> m]
            ELSE LET parsed == JSONparse(ls[sk])
                 IN IF BlockedWithUntil(parsed) /\ t < parsed.blockedUntil
                      THEN [ret |-> TRUE, ls |-> ls, m |-> m]
                    ELSE IF BlockedWithUntil(parsed) /\ t >= parsed.blockedUntil
                      THEN [ret |-> FALSE, ls |-> MapDelete(ls, sk),
                            m |-> MapDelete(m, identifier)]
                    ELSE [ret |-> fromMemory, ls |-> ls, m |-> m]
       ELSE [ret |-> fromMemory, ls |-> ls, m |-> m]

\* -------------------------------------------------------- recordAttempt
\* mutant: the blocking record is written without blockedUntil
accountAttemptWithoutUntil(ls, prev, cfg, k, identifier, t) ==
  LET sk == storageKey(k, identifier)
  IN IF identifier \notin DOMAIN prev
        \/ (t - prev[identifier].firstAttempt) > cfg.windowMs
       THEN LET newRecord == [count |-> 1, firstAttempt |-> t, blocked |-> FALSE]
            IN [ret |-> TRUE,
                ls |-> MapSet(ls, sk, JSONstringify(newRecord)),
                m |-> MapSet(prev, identifier, newRecord)]
     ELSE LET existing == prev[identifier]
              newCount == existing.count + 1
              nextRecord ==
                MapSet(MapSet(existing, "count", newCount),
                       "blocked", newCount >= cfg.maxAttempts)
          IN [ret |-> TRUE,
              ls |-> MapSet(ls, sk, JSONstringify(nextRecord)),
              m |-> MapSet(prev, identifier, nextRecord)]

\* mutant: an incremented count that does not block is written to the map
\* only, the store keeps the record it had
accountAttemptCountInMapOnly(ls, prev, cfg, k, identifier, t) ==
  LET sk == storageKey(k, identifier)
  IN IF identifier \notin DOMAIN prev
        \/ (t - prev[identifier].firstAttempt) > cfg.windowMs
       THEN LET newRecord == [count |-> 1, firstAttempt |-> t, blocked |-> FALSE]
            IN [ret |-> TRUE,
                ls |-> MapSet(ls, sk, JSONstringify(newRecord)),
                m |-> MapSet(prev, identifier, newRecord)]
     ELSE LET existing == prev[identifier]
              newCount == existing.count + 1
          IN IF newCount >= cfg.maxAttempts
               THEN LET blockedRecord ==
                          MapSet(MapSet(MapSet(existing, "count", newCount),
                                        "blocked", TRUE),
                                 "blockedUntil", t + cfg.blockDurationMs)
                    IN [ret |-> TRUE,
                        ls |-> MapSet(ls, sk, JSONstringify(blockedRecord)),
                        m |-> MapSet(prev, identifier, blockedRecord)]
             ELSE [ret |-> TRUE, ls |-> ls,
                   m |-> MapSet(prev, identifier,
                                MapSet(existing, "count", newCount))]

\* The updater handed to setAttempts, applied to the map prev (the store is
\* written inside the updater).
accountAttempt(ls, prev, cfg, k, identifier, t) ==
  LET sk == storageKey(k, identifier)
  IN IF identifier \notin DOMAIN prev
        \/ (t - prev[identifier].firstAttempt) > cfg.windowMs
       THEN LET newRecord == [count |-> 1, firstAttempt |-> t, blocked |-> FALSE]
            IN [ret |-> TRUE,
                ls |-> MapSet(ls, sk, JSONstringify(newRecord)),
                m |-> MapSet(prev, identifier, newRecord)]
     ELSE LET existing == prev[identifier]
              newCount == existing.count + 1
          IN IF newCount >= cfg.maxAttempts
               THEN LET blockedRecord ==
                          MapSet(MapSet(MapSet(existing, "count", newCount),
                                        "blocked", TRUE),
                                 "blockedUntil", t + cfg.blockDurationMs)
                    IN [ret |-> TRUE,
                        ls |-> MapSet(ls, sk, JSONstringify(blockedRecord)),
                        m |-> MapSet(prev, identifier, blockedRecord)]
             ELSE LET updatedRecord == MapSet(existing, "count", newCount)
                  IN [ret |-> TRUE,
                      ls |-> MapSet(ls, sk, JSONstringify(updatedRecord)),
                      m |-> MapSet(prev, identifier, updatedRecord)]

\* mutant: the early return for a blocked identifier is missing
recordAttemptUnguarded(ls, m, cfg, k, identifier, t) ==
  accountAttempt(ls, m, cfg, k, identifier, t)

recordAttempt(ls, m, cfg, k, identifier, t) ==
  LET b == isBlocked(ls, m, k, identifier, t)
  IN IF b.ret
       THEN [ret |-> FALSE, ls |-> b.ls, m |-> b.m]
       ELSE accountAttempt(b.ls, b.m, cfg, k, identifier, t)

\* ------------------------------------------------- getRemainingAttempts
Max(a, b) == IF a >= b THEN a ELSE b

getRemainingAttempts(ls, m, cfg, k, identifier, t) ==
  LET b == isBlocked(ls, m, k, identifier, t)
      \* `attempts` is the map of the render the callback closes over; the
      \* delete queued by isBlocked is not in it, but that delete only
      \* removes a record whose block has expired, for which the code below
      \* would be reached with ret = FALSE
      ret == IF b.ret THEN 0
             ELSE IF identifier \notin DOMAIN m THEN cfg.maxAttempts
             ELSE IF (t - m[identifier].firstAttempt) > cfg.windowMs
               THEN cfg.maxAttempts
             ELSE Max(0, cfg.maxAttempts - m[identifier].count)
  IN [ret |-> ret, ls |-> b.ls, m |-> b.m]

\* ---------------------------------------------- getBlockedTimeRemaining
getBlockedTimeRemaining(m, identifier, t) ==
  IF \/ identifier \notin DOMAIN m
     \/ ~ m[identifier].blocked
     \/ ~ Truthy(m[identifier], "blockedUntil")
    THEN 0
  ELSE Max(0, m[identifier].blockedUntil - t)

\* ---------------------------------------------------------------- state
RateLimiterConfig ==
  [maxAttempts : 1..MaxMaxAttempts, windowMs : 1..MaxWindowMs,
   blockDurationMs : 1..MaxBlockDurationMs]

\* ret is the boolean a call returned, num the number; outcome is how a
\* signIn / signUp call ended
NoCall ==
  [op |-> "none", key |-> "", id |-> "", ret |-> FALSE, num |-> 0,
   afterPurge |-> FALSE, outcome |-> "", unreadable |-> FALSE]

\* the store holds a value for the identifier
Stored(k, identifier) == storageKey(k, identifier) \in DOMAIN localStorage

\* the stored value is not a record: it does not parse, or it parses to
\* something without the fields of an AttemptRecord
Unreadable(k, identifier) ==
  /\ Stored(k, identifier)
  /\ \/ JSONthrows(localStorage[storageKey(k, identifier)])
     \/ "count" \notin
          DOMAIN JSONparse(localStorage[storageKey(k, identifier)])

StoredRecord(k, identifier) == JSONparse(localStorage[storageKey(k, identifier)])

\* the stored record is an expired block: isBlocked will purge it
ExpiredBlock(k, identifier) ==
  /\ Stored(k, identifier)
  /\ BlockedWithUntil(StoredRecord(k, identifier))
  /\ now >= StoredRecord(k, identifier).blockedUntil

\* the store holds a record with blocked = true and now < blockedUntil
ActiveBlockStored(k, identifier) ==
  /\ Stored(k, identifier)
  /\ "blockedUntil" \in DOMAIN StoredRecord(k, identifier)
  /\ StoredRecord(k, identifier).blocked
  /\ now < StoredRecord(k, identifier).blockedUntil

\* the identifiers of the frame specification: the hook takes any string,
\* useAuth passes 'user' only
FrameIdentifiers == {"user", "guest"}

Slots == Keys \X FrameIdentifiers

\* useRateLimiter(key, config): useState(new Map()), nothing stored yet
Init ==
  /\ now = 0
  /\ localStorage = EmptyMap
  /\ attempts = [k \in {"signIn"} |-> EmptyMap]
  /\ config \in [{"signIn"} -> RateLimiterConfig]
  /\ last = NoCall
  /\ pending = [k \in Keys |-> 0]
  /\ ticks = 0
  /\ burst = [s \in Slots |-> 0]
  /\ blockDue = [s \in Slots |-> NoTime]
  /\ purged = {}
  /\ reloadBlock = [s \in Slots |-> NoTime]
  /\ issued = [k \in Keys |-> NoneIssued]
  /\ updaters = EmptyMap
  /\ SessionUnmounted

\* --------------------------------------------------------------- actions
\* what a call of isBlocked does to the ghost variables
NotesIsBlocked(k, identifier) ==
  /\ purged' = IF ExpiredBlock(k, identifier)
                 THEN purged \cup {<<k, identifier>>} ELSE purged
  /\ UNCHANGED <<burst, blockDue, reloadBlock>>

\* what a call of recordAttempt does to the ghost variables
NotesRecordAttempt(k, identifier) ==
  LET fresh == ~ Stored(k, identifier) /\ identifier \notin DOMAIN attempts[k]
      n == IF fresh THEN 1
           ELSE IF burst[k, identifier] = 0 THEN 0
           ELSE IF burst[k, identifier] < config[k].maxAttempts
             THEN burst[k, identifier] + 1
           ELSE burst[k, identifier]
  IN /\ purged' = purged \ {<<k, identifier>>}
     /\ burst' = [burst EXCEPT ![k, identifier] = n]
     /\ blockDue' =
          IF n = config[k].maxAttempts /\ (fresh \/ burst[k, identifier] < n)
            THEN [blockDue EXCEPT
                    ![k, identifier] = now + config[k].blockDurationMs]
            ELSE blockDue
     /\ UNCHANGED reloadBlock

\* the call follows the purge of an expired block of the identifier
AfterPurge(k, identifier) ==
  <<k, identifier>> \in purged \/ ExpiredBlock(k, identifier)

IsBlocked(k, identifier) ==
  LET r == isBlocked(localStorage, attempts[k], k, identifier, now)
  IN /\ localStorage' = r.ls
     /\ attempts' = [attempts EXCEPT ![k] = r.m]
     /\ last' = [op |-> "isBlocked", key |-> k, id |-> identifier, ret |-> r.ret,
                 num |-> 0, afterPurge |-> FALSE, outcome |-> "",
                 unreadable |-> Unreadable(k, identifier)]
     /\ NotesIsBlocked(k, identifier)
     /\ UNCHANGED <<now, config, issued, pending, ticks>>
     /\ UNCHANGED <<updaters, sessionVars, wakeVars, dashboardVars>>

RecordAttempt(k, identifier) ==
  LET r == recordAttempt(localStorage, attempts[k], config[k], k, identifier, now)
  IN /\ localStorage' = r.ls
     /\ attempts' = [attempts EXCEPT ![k] = r.m]
     /\ last' = [op |-> "recordAttempt", key |-> k, id |-> identifier,
                 ret |-> r.ret, num |-> 0,
                 afterPurge |-> AfterPurge(k, identifier), outcome |-> "",
                 unreadable |-> Unreadable(k, identifier)]
     /\ NotesRecordAttempt(k, identifier)
     /\ UNCHANGED <<now, config, issued, pending, ticks>>
     /\ UNCHANGED <<updaters, sessionVars, wakeVars, dashboardVars>>

GetRemainingAttempts(k, identifier) ==
  LET r == getRemainingAttempts(localStorage, attempts[k], config[k], k,
                                identifier, now)
  IN /\ localStorage' = r.ls
     /\ attempts' = [attempts EXCEPT ![k] = r.m]
     /\ last' = [op |-> "getRemainingAttempts", key |-> k,
                 id |-> identifier, ret |-> FALSE, num |-> r.ret,
                 afterPurge |-> FALSE, outcome |-> "",
                 unreadable |-> Unreadable(k, identifier)]
     /\ NotesIsBlocked(k, identifier)
     /\ UNCHANGED <<now, config, issued, pending, ticks>>
     /\ UNCHANGED <<updaters, sessionVars, wakeVars, dashboardVars>>

GetBlockedTimeRemaining(k, identifier) ==
  /\ last' = [op |-> "getBlockedTimeRemaining", key |-> k,
              id |-> identifier,
              ret |-> FALSE,
              num |-> getBlockedTimeRemaining(attempts[k], identifier, now),
              afterPurge |-> FALSE, outcome |-> "",
              unreadable |-> Unreadable(k, identifier)]
  /\ UNCHANGED <<now, localStorage, attempts, config, issued, pending, ticks,
                 burst,
                 blockDue, purged, reloadBlock>>
  /\ UNCHANGED <<updaters, sessionVars, wakeVars, dashboardVars>>

\* the ghost variables as time passes: no burst spans two instants, and a due
\* time that has been reached is forgotten
TimePasses(t) ==
  /\ last' = NoCall
  /\ burst' = [s \in Slots |-> 0]
  /\ blockDue' = [s \in Slots |->
                    IF blockDue[s] # NoTime /\ t >= blockDue[s]
                      THEN NoTime ELSE blockDue[s]]
  /\ reloadBlock' = [s \in Slots |->
                       IF reloadBlock[s] # NoTime /\ t >= reloadBlock[s]
                         THEN NoTime ELSE reloadBlock[s]]

\* Date.now() advances
Tick ==
  /\ now < MaxTime
  /\ now' = now + 1
  /\ TimePasses(now + 1)
  /\ UNCHANGED <<localStorage, attempts, config, issued, pending, ticks,
                 purged>>
  /\ UNCHANGED <<updaters, sessionVars, wakeVars, dashboardVars>>

\* the page is loaded: every hook is constructed again and the pending calls
\* of the old page are dropped, localStorage is kept
PageLoads ==
  /\ attempts' = [k \in DOMAIN attempts |-> EmptyMap]
  /\ pending' = [k \in Keys |-> 0]
  /\ last' = NoCall
  /\ burst' = [s \in Slots |-> 0]
  /\ reloadBlock' =
       [s \in Slots |->
          IF s[1] \in DOMAIN attempts
             /\ isBlocked(localStorage, attempts[s[1]], s[1], s[2], now).ret
            THEN IF ActiveBlockStored(s[1], s[2])
                   THEN StoredRecord(s[1], s[2]).blockedUntil
                   ELSE attempts[s[1]][s[2]].blockedUntil
            ELSE NoTime]
  /\ updaters' = EmptyMap
  /\ UNCHANGED <<now, localStorage, config, issued, ticks, blockDue, purged>>

\* the page reloads
Reload ==
  /\ PageLoads
  /\ UNCHANGED <<sessionVars, wakeVars, dashboardVars>>

Next ==
  \/ \E k \in DOMAIN attempts, identifier \in Identifiers :
       IsBlocked(k, identifier)
  \/ \E k \in DOMAIN attempts, identifier \in Identifiers :
       RecordAttempt(k, identifier)
  \/ \E k \in DOMAIN attempts, identifier \in Identifiers :
       GetRemainingAttempts(k, identifier)
  \/ \E k \in DOMAIN attempts, identifier \in Identifiers :
       GetBlockedTimeRemaining(k, identifier)
  \/ Tick
  \/ Reload

Spec == Init /\ [][Next]_vars

\* The stored value of the identifier is overwritten from outside the hook
\* (the store is shared with every script and tool of the origin) by a text
\* that is not a record: the case the catch of isBlocked is written for.
Corrupt(k, identifier, text) ==
  /\ localStorage' = MapSet(localStorage, storageKey(k, identifier), text)
  /\ last' = NoCall
  /\ UNCHANGED <<now, attempts, config, issued, pending, ticks, burst, blockDue,
                 purged, reloadBlock>>
  /\ UNCHANGED <<updaters, sessionVars, wakeVars, dashboardVars>>

NextCorrupt ==
  \/ Next
  \/ \E k \in DOMAIN attempts, identifier \in Identifiers,
        text \in {Garbage, NotARecord} : Corrupt(k, identifier, text)

\* the limiter on a store that may be corrupted
SpecCorrupt == Init /\ [][NextCorrupt]_vars

\* ------------------------------------------------------------------------
\* Properties of the limiter, checked under Spec
\* ------------------------------------------------------------------------
\* the step is a call of op of hook k on the identifier (every call sets last)
CallOf(op, k, identifier) ==
  last'.op = op /\ last'.key = k /\ last'.id = identifier

isBlockedNow(k, identifier) ==
  isBlocked(localStorage, attempts[k], k, identifier, now).ret

\* C1: after maxAttempts calls of recordAttempt(id) at one instant, starting
\* from no record, isBlocked(id) is true at every time before the time of the
\* blocking call + blockDurationMs (blockDue), whatever limiter calls follow.
C1_BlockedAfterMaxAttempts ==
  \A k \in DOMAIN attempts, i \in Identifiers :
    (blockDue[k, i] # NoTime /\ now < blockDue[k, i]) => isBlockedNow(k, i)

\* C2: a block that was active when the page reloaded is still reported by
\* isBlocked, and recordAttempt still returns false, at every time before its
\* blockedUntil.
C2_ReloadKeepsBlock ==
  \A k \in DOMAIN attempts, i \in Identifiers :
    (reloadBlock[k, i] # NoTime /\ now < reloadBlock[k, i]) =>
      /\ isBlockedNow(k, i)
      /\ ~ recordAttempt(localStorage, attempts[k], config[k], k, i, now).ret
      /\ (last.op = "isBlocked" /\ last.key = k /\ last.id = i
            => last.ret = TRUE)
      /\ (last.op = "recordAttempt" /\ last.key = k /\ last.id = i
            => last.ret = FALSE)

C2_Witness ==
  /\ reloadBlock["signIn", "user"] # NoTime
  /\ now < reloadBlock["signIn", "user"]
  /\ attempts["signIn"] = EmptyMap
  /\ last.op = "recordAttempt"
  /\ last.ret = FALSE

C6_ExpiredBlockPurged ==
  /\ \A s \in purged : ~ Stored(s[1], s[2]) /\ s[2] \notin DOMAIN attempts[s[1]]
  /\ (last.op = "isBlocked" /\ <<last.key, last.id>> \in purged)
       => last.ret = FALSE
  /\ (last.op = "recordAttempt" /\ last.afterPurge) =>
       LET fresh == [count |-> 1, firstAttempt |-> now, blocked |-> FALSE]
       IN /\ last.ret = TRUE
          /\ last.id \in DOMAIN attempts[last.key]
          /\ attempts[last.key][last.id] = fresh
          /\ Stored(last.key, last.id)
          /\ StoredRecord(last.key, last.id) = fresh

C6_Witness ==
  /\ last.op = "recordAttempt"
  /\ last.afterPurge
  /\ last.ret = TRUE
  /\ now > 0

\* C7: recordAttempt(id) called while isBlocked(id) is true returns false and
\* changes neither the store nor the map.
C7_BlockedAttemptChangesNothing ==
  [][\A k \in DOMAIN attempts, i \in Identifiers :
       (CallOf("recordAttempt", k, i) /\ ActiveBlockStored(k, i)) =>
         /\ last'.ret = FALSE
         /\ localStorage' = localStorage
         /\ attempts' = attempts]_vars

C7_Witness ==
  /\ last.op = "recordAttempt"
  /\ last.ret = FALSE
  /\ ActiveBlockStored(last.key, last.id)

\* C8: getRemainingAttempts(id) returns 0 while id is blocked, maxAttempts
\* when no record exists or its window has expired, and otherwise
\* max(0, maxAttempts - count), count being the attempts recorded in the
\* current window (the count of the durable record when the call is made).
C8_RemainingAttempts ==
  [][\A k \in DOMAIN attempts, i \in Identifiers :
       CallOf("getRemainingAttempts", k, i) =>
         last'.num =
           IF ActiveBlockStored(k, i) THEN 0
           ELSE IF ~ Stored(k, i) THEN config[k].maxAttempts
           ELSE IF now - StoredRecord(k, i).firstAttempt > config[k].windowMs
             THEN config[k].maxAttempts
           ELSE Max(0, config[k].maxAttempts - StoredRecord(k, i).count)]_vars

\* C9: getBlockedTimeRemaining(id) returns 0 when isBlocked(id) is false and
\* max(0, blockedUntil - now) when it is true, so it is positive whenever
\* isBlocked(id) is true.
C9_BlockedTimeRemaining ==
  last.op = "getBlockedTimeRemaining" =>
    /\ last.num =
         IF isBlockedNow(last.key, last.id)
           THEN Max(0, StoredRecord(last.key, last.id).blockedUntil - now)
           ELSE 0
    /\ isBlockedNow(last.key, last.id) => last.num > 0

\* C10: an unblocked record stored before a reload still counts: the next
\* recordAttempt inside its window leaves count = k + 1 (blocked when
\* k + 1 = maxAttempts).
C10_CountSurvivesReload ==
  [][\A k \in DOMAIN attempts, i \in Identifiers :
       ( /\ CallOf("recordAttempt", k, i)
         /\ i \notin DOMAIN attempts[k]
         /\ Stored(k, i)
         /\ ~ StoredRecord(k, i).blocked
         /\ StoredRecord(k, i).count < config[k].maxAttempts
         /\ now - StoredRecord(k, i).firstAttempt <= config[k].windowMs ) =>
         LET after == JSONparse(localStorage'[storageKey(k, i)])
         IN /\ after.count = StoredRecord(k, i).count + 1
            /\ after.blocked = (after.count >= config[k].maxAttempts)]_vars

\* C11: recordAttempt(id) on an unblocked id with an existing record (the
\* durable record, blocked = false) replaces it by count = 1,
\* firstAttempt = now, blocked = false when now - firstAttempt > windowMs, and
\* otherwise increases count by exactly 1 and keeps firstAttempt.
C11_WindowAccounting ==
  [][\A k \in DOMAIN attempts, i \in Identifiers :
       ( /\ CallOf("recordAttempt", k, i)
         /\ Stored(k, i)
         /\ ~ StoredRecord(k, i).blocked ) =>
         LET before == StoredRecord(k, i)
             after == JSONparse(localStorage'[storageKey(k, i)])
         IN /\ last'.ret = TRUE
            /\ IF now - before.firstAttempt > config[k].windowMs
                 THEN after = [count |-> 1, firstAttempt |-> now,
                               blocked |-> FALSE]
                 ELSE /\ after.count = before.count + 1
                      /\ after.firstAttempt = before.firstAttempt]_vars

\* the store without the value of the identifier
Discarded(k, identifier) == MapDelete(localStorage, storageKey(k, identifier))

MaxAuthTicks == 1
MaxPending == 1         \* backend calls in flight per operation

SignInConfig ==
  [maxAttempts |-> 5, windowMs |-> 15 * 60 * 1000,
   blockDurationMs |-> 15 * 60 * 1000]

SignUpConfig ==
  [maxAttempts |-> 3, windowMs |-> 60 * 60 * 1000,
   blockDurationMs |-> 60 * 60 * 1000]

clientId == "user"

\* A form value, by the properties validateField tests: its length, whether
\* it is empty or blank, and which of the patterns it matches.
Value(length, emailShape, lower, upper, digit, special, nameShape) ==
  [length |-> length, blank |-> (length = 0), emailShape |-> emailShape,
   lower |-> lower, upper |-> upper, digit |-> digit, special |-> special,
   nameShape |-> nameShape]

\* the form values of the model
Empty == Value(0, FALSE, FALSE, FALSE, FALSE, FALSE, FALSE)

Spaces ==
  [Value(2, FALSE, FALSE, FALSE, FALSE, FALSE, FALSE) EXCEPT !.blank = TRUE]

GoodEmail == Value(6, TRUE, TRUE, FALSE, FALSE, FALSE, FALSE)      \* "a@b.co"

NoEmail == Value(6, FALSE, TRUE, FALSE, FALSE, FALSE, TRUE)        \* "nobody"

WeakPassword == Value(8, FALSE, TRUE, FALSE, FALSE, FALSE, TRUE)   \* "password"

StrongPassword == Value(9, FALSE, TRUE, TRUE, TRUE, TRUE, FALSE)   \* "Passw0rd!"

LongPassword == Value(129, FALSE, TRUE, TRUE, TRUE, TRUE, FALSE)

GoodName == Value(7, FALSE, TRUE, TRUE, FALSE, FALSE, TRUE)        \* "Ann Lee"

BadName == Value(4, FALSE, FALSE, TRUE, TRUE, FALSE, FALSE)        \* "R2D2"

\* the submissions of the sign-in form: <<email, password>>
SignInForms ==
  { <<GoodEmail, WeakPassword>>, <<GoodEmail, StrongPassword>>,
    <<Spaces, StrongPassword>>, <<NoEmail, StrongPassword>>,
    <<GoodEmail, Empty>>, <<GoodEmail, LongPassword>> }

\* the submissions of the sign-up form: <<email, password, fullName>>
SignUpForms ==
  { <<GoodEmail, StrongPassword, Empty>>, <<GoodEmail, StrongPassword, GoodName>>,
    <<GoodEmail, StrongPassword, BadName>>, <<GoodEmail, WeakPassword, Empty>>,
    <<NoEmail, StrongPassword, GoodName>>, <<Empty, StrongPassword, Empty>> }

NoRules ==
  [required |-> FALSE, minLength |-> 0, maxLength |-> 0, email |-> FALSE,
   strongPassword |-> FALSE, pattern |-> FALSE]

\* validateField(value, rules).isValid
validateField(value, rules) ==
  IF rules.required /\ value.blank THEN FALSE
  ELSE IF value.length = 0 /\ ~ rules.required THEN TRUE
  ELSE IF rules.minLength # 0 /\ value.length < rules.minLength THEN FALSE
  ELSE IF rules.maxLength # 0 /\ value.length > rules.maxLength THEN FALSE
  ELSE IF rules.email /\ ~ value.emailShape THEN FALSE
  ELSE IF rules.strongPassword
          /\ ( \/ value.length < 8
               \/ ~ value.lower \/ ~ value.upper
               \/ ~ value.digit \/ ~ value.special ) THEN FALSE
  ELSE IF rules.pattern /\ ~ value.nameShape THEN FALSE
  ELSE TRUE

\* the three validations of signIn and signUp
emailValidation(email) ==
  validateField(email, [NoRules EXCEPT !.required = TRUE, !.email = TRUE,
                                       !.maxLength = 254])

passwordValidation(password, strong) ==
  validateField(password, [NoRules EXCEPT !.required = TRUE,
                                          !.strongPassword = strong,
                                          !.maxLength = 128])

nameValidation(fullName) ==
  validateField(fullName, [NoRules EXCEPT !.maxLength = 100,
                                          !.pattern = TRUE])

\* Math.ceil(remaining / (60 * 1000))
Minutes(remaining) == (remaining + 60 * 1000 - 1) \div (60 * 1000)

\* The synchronous part of signIn (up to the await of the backend call) at
\* time t: how it ends ("tooMany", "invalid", or "issued" when
\* signInWithPassword is called), the minutes of the message, whether
\* recordAttempt was called, and the store and the map it leaves.
\* mutant: the rate limiting check is missing
signInUnchecked(ls, m, email, password, t) ==
  IF ~ emailValidation(email) \/ ~ passwordValidation(password, FALSE)
    THEN [outcome |-> "invalid", minutes |-> 0, recorded |-> FALSE,
          ls |-> ls, m |-> m]
  ELSE LET r == recordAttempt(ls, m, SignInConfig, "signIn", clientId, t)
       IN [outcome |-> "issued", minutes |-> 0, recorded |-> TRUE,
           ls |-> r.ls, m |-> r.m]

signIn(ls, m, email, password, t) ==
  LET b == isBlocked(ls, m, "signIn", clientId, t)
  IN IF b.ret
       THEN [outcome |-> "tooMany",
             minutes |-> Minutes(getBlockedTimeRemaining(m, clientId, t)),
             recorded |-> FALSE, ls |-> b.ls, m |-> b.m]
     ELSE IF ~ emailValidation(email)
       THEN [outcome |-> "invalid", minutes |-> 0, recorded |-> FALSE,
             ls |-> b.ls, m |-> b.m]
     ELSE IF ~ passwordValidation(password, FALSE)
       THEN [outcome |-> "invalid", minutes |-> 0, recorded |-> FALSE,
             ls |-> b.ls, m |-> b.m]
     ELSE LET r == recordAttempt(b.ls, b.m, SignInConfig, "signIn", clientId, t)
          IN [outcome |-> "issued", minutes |-> 0, recorded |-> TRUE,
              ls |-> r.ls, m |-> r.m]

\* the synchronous part of signUp, up to the await of supabase.auth.signUp
signUp(ls, m, email, password, fullName, t) ==
  LET b == isBlocked(ls, m, "signUp", clientId, t)
  IN IF b.ret
       THEN [outcome |-> "tooMany",
             minutes |-> Minutes(getBlockedTimeRemaining(m, clientId, t)),
             recorded |-> FALSE, ls |-> b.ls, m |-> b.m]
     ELSE IF ~ emailValidation(email)
       THEN [outcome |-> "invalid", minutes |-> 0, recorded |-> FALSE,
             ls |-> b.ls, m |-> b.m]
     ELSE IF ~ passwordValidation(password, TRUE)
       THEN [outcome |-> "invalid", minutes |-> 0, recorded |-> FALSE,
             ls |-> b.ls, m |-> b.m]
     ELSE IF fullName.length # 0 /\ ~ nameValidation(fullName)
       THEN [outcome |-> "invalid", minutes |-> 0, recorded |-> FALSE,
             ls |-> b.ls, m |-> b.m]
     ELSE LET r == recordAttempt(b.ls, b.m, SignUpConfig, "signUp", clientId, t)
          IN [outcome |-> "issued", minutes |-> 0, recorded |-> TRUE,
              ls |-> r.ls, m |-> r.m]

\* ------------------------------------------------------- actions of useAuth
\* a call of signIn / signUp that ended with outcome r
Attempt(op, k, r) ==
  /\ pending[k] < MaxPending
  /\ localStorage' = r.ls
  /\ attempts' = [attempts EXCEPT ![k] = r.m]
  /\ pending' = IF r.outcome = "issued"
                  THEN [pending EXCEPT ![k] = @ + 1] ELSE pending
  /\ last' = [op |-> op, key |-> k, id |-> clientId, ret |-> r.recorded,
              num |-> r.minutes, afterPurge |-> AfterPurge(k, clientId),
              outcome |-> r.outcome, unreadable |-> Unreadable(k, clientId)]
  /\ IF r.recorded
       THEN NotesRecordAttempt(k, clientId)
       ELSE NotesIsBlocked(k, clientId)
  /\ UNCHANGED <<now, config, ticks>>
  /\ UNCHANGED <<updaters, sessionVars, wakeVars, dashboardVars>>

Attempted(op, k, r) ==
  /\ Attempt(op, k, r)
  /\ UNCHANGED issued

SignIn(email, password) ==
  Attempted("signIn", "signIn",
            signIn(localStorage, attempts["signIn"], email, password, now))

SignUp(email, password, fullName) ==
  Attempted("signUp", "signUp",
            signUp(localStorage, attempts["signUp"], email, password,
                   fullName, now))

\* the backend answers a pending call: signIn / signUp returns { error }
BackendReply(k, ok) ==
  /\ pending[k] > 0
  /\ pending' = [pending EXCEPT ![k] = @ - 1]
  /\ last' = [NoCall EXCEPT !.op = "reply", !.key = k, !.id = clientId,
                            !.outcome = IF ok THEN "ok" ELSE "error"]
  /\ UNCHANGED <<now, localStorage, attempts, config, issued, ticks, burst,
                 blockDue,
                 purged, reloadBlock>>
  /\ UNCHANGED <<updaters, sessionVars, wakeVars, dashboardVars>>

\* half a minute, the block of signIn, the block of signUp
AuthTickSteps == {30 * 1000, 60 * 60 * 1000}

AuthClock ==
  /\ ticks < MaxAuthTicks
  /\ \E d \in AuthTickSteps :
       /\ now' = now + d
       /\ TimePasses(now + d)
  /\ ticks' = ticks + 1
  /\ UNCHANGED <<localStorage, attempts, config, pending, purged>>
  /\ UNCHANGED <<updaters, sessionVars, wakeVars, dashboardVars>>

AuthTick ==
  /\ AuthClock
  /\ UNCHANGED issued

InitAuth ==
  /\ now = 0
  /\ localStorage = EmptyMap
  /\ attempts = [k \in Keys |-> EmptyMap]
  /\ config = [k \in Keys |->
                 IF k = "signIn" THEN SignInConfig ELSE SignUpConfig]
  /\ last = NoCall
  /\ pending = [k \in Keys |-> 0]
  /\ ticks = 0
  /\ burst = [s \in Slots |-> 0]
  /\ blockDue = [s \in Slots |-> NoTime]
  /\ purged = {}
  /\ reloadBlock = [s \in Slots |-> NoTime]
  /\ issued = [k \in Keys |-> NoneIssued]
  /\ updaters = EmptyMap
  /\ SessionUnmounted

NextAuth ==
  \/ \E form \in SignInForms : SignIn(form[1], form[2])
  \/ \E form \in SignUpForms : SignUp(form[1], form[2], form[3])
  \/ \E k \in Keys, ok \in BOOLEAN : BackendReply(k, ok)
  \/ \E k \in Keys : IsBlocked(k, clientId)
  \/ \E k \in Keys : GetRemainingAttempts(k, clientId)
  \/ AuthTick
  \/ Reload

SpecAuth == InitAuth /\ [][NextAuth]_vars

\* useAuth with the backend calls counted. A call of signIn / signUp that
\* issues its backend call adds to the calls issued within the window.
CountedAttempt(op, k, r) ==
  /\ Attempt(op, k, r)
  /\ issued' =
       IF r.outcome = "issued"
         THEN [issued EXCEPT
                 ![k] = [n |-> IF @.n <= config[k].maxAttempts
                                 THEN @.n + 1 ELSE @.n,
                         since |-> IF @.n = 0 THEN now ELSE @.since]]
       ELSE issued

\* the clock advances: the calls counted are forgotten when the oldest of
\* them is windowMs ago or more
CountedTick ==
  /\ AuthClock
  /\ issued' = [k \in Keys |->
                  IF issued[k].n > 0
                     /\ now' - issued[k].since >= config[k].windowMs
                    THEN NoneIssued ELSE issued[k]]

NextCalls ==
  \/ \E form \in SignInForms :
       CountedAttempt("signIn", "signIn",
                      signIn(localStorage, attempts["signIn"], form[1],
                             form[2], now))
  \/ \E form \in SignUpForms :
       CountedAttempt("signUp", "signUp",
                      signUp(localStorage, attempts["signUp"], form[1],
                             form[2], form[3], now))
  \/ \E k \in Keys, ok \in BOOLEAN : BackendReply(k, ok)
  \/ CountedTick
  \/ Reload

SpecCalls == InitAuth /\ [][NextCalls]_vars

\* ------------------------------------------------------------------------
\* Properties of useAuth, checked under SpecAuth
\* ------------------------------------------------------------------------
\* the step is a call of signIn (k = "signIn") or of signUp (k = "signUp")
AuthCall(k) == CallOf(k, k, clientId)

\* C3: a call of signIn or signUp made while isBlocked(clientId) is true
\* returns the "too many attempts" error, issues no backend call and records
\* no attempt (store and map are left as they were); hence a backend call is
\* only ever issued by a call made while the limiter did not report a block.
C3_BlockedCallIsRejected ==
  [][\A k \in Keys :
       /\ (AuthCall(k) /\ isBlockedNow(k, clientId)) =>
            /\ last'.outcome = "tooMany"
            /\ last'.ret = FALSE
            /\ pending' = pending
            /\ localStorage' = localStorage
            /\ attempts' = attempts
       /\ pending'[k] > pending[k] =>
            (AuthCall(k) /\ ~ isBlockedNow(k, clientId))]_vars

C3_Witness ==
  /\ last.op = "signIn"
  /\ last.outcome = "tooMany"
  /\ last.num > 0
  /\ pending["signIn"] = 0
  /\ isBlockedNow("signIn", clientId)

\* C4: every call of signIn or signUp that is not rejected as blocked calls
\* recordAttempt, whatever becomes of the attempt afterwards.
C4_EveryAttemptRecorded ==
  [][\A k \in Keys :
       (AuthCall(k) /\ ~ isBlockedNow(k, clientId)) => last'.ret = TRUE]_vars

\* ------------------------------------------------------------------------
\* useSessionTimeout: the idle session monitor
\* ------------------------------------------------------------------------
MaxTimeoutMs == 3       \* config.timeoutMs ranges over 2..MaxTimeoutMs
MaxSessionTime == 6     \* Date.now() ranges over 0..MaxSessionTime

\* SessionTimeoutConfig with 0 < warningMs < timeoutMs; onWarning is optional
SessionTimeoutConfig ==
  { c \in [timeoutMs : 2..MaxTimeoutMs, warningMs : 1..MaxTimeoutMs,
           onWarning : BOOLEAN] : c.warningMs < c.timeoutMs }

\* clearTimeout(ref.current): of a null ref, or of a timer that has fired or
\* was cleared, it does nothing
clearTimeout(tms, ref) == tms \ {ref}

\* mutant: the timers of the previous schedule are not cleared
resetTimerKeepsTimers(tms, tRef, wRef, u, cfg, t) ==
  IF ~ u
    THEN [timers |-> tms, timeoutRef |-> tRef, warningRef |-> wRef,
          lastActivityRef |-> t]
  ELSE LET w == [kind |-> "warning", due |-> t + (cfg.timeoutMs - cfg.warningMs)]
           o == [kind |-> "timeout", due |-> t + cfg.timeoutMs]
       IN [timers |-> tms \cup (IF cfg.onWarning THEN {w} ELSE {}) \cup {o},
           timeoutRef |-> o,
           warningRef |-> IF cfg.onWarning THEN w ELSE wRef,
           lastActivityRef |-> t]

\* mutant: only the timeout of the previous schedule is cleared
resetTimerKeepsWarning(tms, tRef, wRef, u, cfg, t) ==
  LET cleared == clearTimeout(tms, tRef)
  IN IF ~ u
       THEN [timers |-> cleared, timeoutRef |-> tRef, warningRef |-> wRef,
             lastActivityRef |-> t]
     ELSE LET w == [kind |-> "warning",
                    due |-> t + (cfg.timeoutMs - cfg.warningMs)]
              o == [kind |-> "timeout", due |-> t + cfg.timeoutMs]
          IN [timers |-> cleared \cup (IF cfg.onWarning THEN {w} ELSE {})
                                 \cup {o},
              timeoutRef |-> o,
              warningRef |-> IF cfg.onWarning THEN w ELSE wRef,
              lastActivityRef |-> t]

\* mutant: the warning is scheduled warningMs after the timeout
resetTimerWarnsLate(tms, tRef, wRef, u, cfg, t) ==
  LET cleared == clearTimeout(clearTimeout(tms, tRef), wRef)
  IN IF ~ u
       THEN [timers |-> cleared, timeoutRef |-> tRef, warningRef |-> wRef,
             lastActivityRef |-> t]
     ELSE LET w == [kind |-> "warning",
                    due |-> t + (cfg.timeoutMs + cfg.warningMs)]
              o == [kind |-> "timeout", due |-> t + cfg.timeoutMs]
          IN [timers |-> cleared \cup (IF cfg.onWarning THEN {w} ELSE {})
                                 \cup {o},
              timeoutRef |-> o,
              warningRef |-> IF cfg.onWarning THEN w ELSE wRef,
              lastActivityRef |-> t]

\* resetTimer() of a render whose user is u and whose config is cfg, at time
\* t: the pending timers, the two refs and lastActivityRef it leaves
resetTimer(tms, tRef, wRef, u, cfg, t) ==
  LET cleared == clearTimeout(clearTimeout(tms, tRef), wRef)
  IN IF ~ u
       THEN [timers |-> cleared, timeoutRef |-> tRef, warningRef |-> wRef,
             lastActivityRef |-> t]
     ELSE LET w == [kind |-> "warning",
                    due |-> t + (cfg.timeoutMs - cfg.warningMs)]
              o == [kind |-> "timeout", due |-> t + cfg.timeoutMs]
          IN [timers |-> cleared \cup (IF cfg.onWarning THEN {w} ELSE {})
                                 \cup {o},
              timeoutRef |-> o,
              warningRef |-> IF cfg.onWarning THEN w ELSE wRef,
              lastActivityRef |-> t]

\* mutant: the effect leaves the timers alone when there is no user
sessionEffectKeepsTimers(tms, tRef, wRef, ref, u, cfg, t) ==
  IF ~ u
    THEN [timers |-> tms, timeoutRef |-> tRef, warningRef |-> wRef,
          lastActivityRef |-> ref, listening |-> FALSE]
  ELSE LET r == resetTimer(tms, tRef, wRef, u, cfg, t)
       IN [timers |-> r.timers, timeoutRef |-> r.timeoutRef,
           warningRef |-> r.warningRef,
           lastActivityRef |-> r.lastActivityRef, listening |-> TRUE]

\* The effect of useSessionTimeout running again (its dependencies user,
\* handleActivity or resetTimer changed): the cleanup of the previous run,
\* then the body with the user u of the new render.
sessionEffect(tms, tRef, wRef, ref, u, cfg, t) ==
  LET cleared == clearTimeout(clearTimeout(tms, tRef), wRef)
  IN IF ~ u
       THEN [timers |-> cleared, timeoutRef |-> tRef, warningRef |-> wRef,
             lastActivityRef |-> ref, listening |-> FALSE]
     ELSE LET r == resetTimer(cleared, tRef, wRef, u, cfg, t)
          IN [timers |-> r.timers, timeoutRef |-> r.timeoutRef,
              warningRef |-> r.warningRef,
              lastActivityRef |-> r.lastActivityRef, listening |-> TRUE]

\* getTimeRemaining() of a render whose user is u
getTimeRemaining(u, ref, cfg, t) ==
  IF ~ u THEN 0 ELSE Max(0, cfg.timeoutMs - (t - ref))

\* ------------------------------------------- actions of useSessionTimeout
wrapperVars == <<showWarning, timeRemaining, interval, signingOut>>

\* the timers, refs and lastActivityRef that resetTimer or the effect leave
Monitor(r) ==
  /\ timers' = r.timers
  /\ timeoutRef' = r.timeoutRef
  /\ warningRef' = r.warningRef
  /\ lastActivityRef' = r.lastActivityRef

\* an idle period starts at time t
IdleFrom(t) ==
  /\ lastActivityAt' = t
  /\ nWarning' = 0
  /\ nTimeout' = 0
  /\ rerendered' = FALSE
  /\ endedAt' = IF t = NoTime THEN now ELSE NoTime
  /\ expired' = (expired /\ t # NoTime)

\* onAuthStateChange delivers a session: setUser(user), the hook renders
\* with the user and its effect runs
Authenticate ==
  /\ ~ user
  /\ user' = TRUE
  /\ LET r == sessionEffect(timers, timeoutRef, warningRef, lastActivityRef,
                            TRUE, sessionConfig, now)
     IN Monitor(r) /\ listening' = r.listening
  /\ IdleFrom(now)
  /\ fired' = [op |-> "authenticate", at |-> now, num |-> 0]
  /\ UNCHANGED <<now, limiterVars, dashboardVars, wakeVars, sessionConfig,
                 wrapperVars>>

\* the session ends (signed out, or torn down from outside): setUser(null),
\* the hook renders without a user and its effect runs
SessionEnds ==
  /\ user
  /\ user' = FALSE
  /\ LET r == sessionEffect(timers, timeoutRef, warningRef, lastActivityRef,
                            FALSE, sessionConfig, now)
     IN Monitor(r) /\ listening' = r.listening
  /\ IdleFrom(NoTime)
  /\ fired' = [op |-> "sessionEnds", at |-> now, num |-> 0]
  /\ UNCHANGED <<now, limiterVars, dashboardVars, wakeVars, sessionConfig,
                 wrapperVars>>

\* one of the tracked document events: handleActivity, if it is registered
Activity ==
  /\ IF listening
       THEN Monitor(resetTimer(timers, timeoutRef, warningRef, user,
                               sessionConfig, now))
       ELSE UNCHANGED <<timers, timeoutRef, warningRef, lastActivityRef>>
  /\ IF listening /\ user
       THEN IdleFrom(now)
       ELSE UNCHANGED <<lastActivityAt, nWarning, nTimeout, rerendered,
                        endedAt, expired>>
  /\ fired' = [op |-> "activity", at |-> now, num |-> Cardinality(timers)]
  /\ UNCHANGED <<now, limiterVars, dashboardVars, wakeVars, user,
                 sessionConfig, listening, wrapperVars>>

\* extendSession() of the latest render
ExtendSession ==
  /\ Monitor(resetTimer(timers, timeoutRef, warningRef, user, sessionConfig,
                        now))
  /\ IF user
       THEN IdleFrom(now)
       ELSE UNCHANGED <<lastActivityAt, nWarning, nTimeout, rerendered,
                        endedAt, expired>>
  /\ fired' = [op |-> "extendSession", at |-> now,
               num |-> Cardinality(timers)]
  /\ UNCHANGED <<now, limiterVars, dashboardVars, wakeVars, user,
                 sessionConfig, listening, wrapperVars>>

\* The component that calls the hook renders again. Its config is a new
\* object (AppWithSessionTimeout builds sessionConfig in its body), so
\* resetTimer and handleActivity are new callbacks and the effect runs again.
Rerender ==
  /\ LET r == sessionEffect(timers, timeoutRef, warningRef, lastActivityRef,
                            user, sessionConfig, now)
     IN Monitor(r) /\ listening' = r.listening
  /\ rerendered' = user
  /\ fired' = [op |-> "render", at |-> now, num |-> 0]
  /\ UNCHANGED <<now, limiterVars, dashboardVars, wakeVars, user,
                 sessionConfig, wrapperVars, lastActivityAt, nWarning,
                 nTimeout, endedAt, expired>>

\* min(n + 1, 2)
Counted(n) == IF n < 2 THEN n + 1 ELSE 2

\* a pending timer is due: its callback invokes config.onWarning or
\* config.onTimeout
TimerFires(tm) ==
  /\ tm \in timers
  /\ tm.due <= now
  /\ timers' = timers \ {tm}
  /\ nWarning' = IF tm.kind = "warning" THEN Counted(nWarning) ELSE nWarning
  /\ nTimeout' = IF tm.kind = "timeout" THEN Counted(nTimeout) ELSE nTimeout
  /\ expired' = (expired \/ tm.kind = "timeout")
  /\ fired' = [op |-> IF tm.kind = "warning" THEN "onWarning" ELSE "onTimeout",
               at |-> now,
               num |-> getTimeRemaining(user, lastActivityRef, sessionConfig,
                                        now)]
  /\ UNCHANGED <<now, limiterVars, dashboardVars, wakeVars, user,
                 sessionConfig, timeoutRef, warningRef, lastActivityRef,
                 listening, wrapperVars, lastActivityAt, rerendered, endedAt>>

GetTimeRemaining ==
  /\ fired' = [op |-> "getTimeRemaining", at |-> now,
               num |-> getTimeRemaining(user, lastActivityRef, sessionConfig,
                                        now)]
  /\ UNCHANGED <<now, limiterVars, dashboardVars, wakeVars, user,
                 sessionConfig, timers, timeoutRef, warningRef,
                 lastActivityRef, listening, wrapperVars, lastActivityAt,
                 nWarning, nTimeout, rerendered, endedAt, expired>>

\* Date.now() advances; a timer fires when it is due, not later
SessionTick ==
  /\ now < MaxSessionTime
  /\ \A tm \in timers : tm.due > now
  /\ now' = now + 1
  /\ fired' = NoEvent
  /\ UNCHANGED <<limiterVars, dashboardVars, wakeVars, user, sessionConfig,
                 timers, timeoutRef, warningRef, lastActivityRef, listening,
                 wrapperVars, lastActivityAt, nWarning, nTimeout, rerendered,
                 endedAt, expired>>

\* no limiter call is part of the behaviour
LimiterUnused ==
  /\ localStorage = EmptyMap
  /\ attempts = [k \in Keys |-> EmptyMap]
  /\ config = [k \in Keys |->
                 IF k = "signIn" THEN SignInConfig ELSE SignUpConfig]
  /\ last = NoCall
  /\ pending = [k \in Keys |-> 0]
  /\ ticks = 0
  /\ burst = [s \in Slots |-> 0]
  /\ blockDue = [s \in Slots |-> NoTime]
  /\ purged = {}
  /\ reloadBlock = [s \in Slots |-> NoTime]
  /\ issued = [k \in Keys |-> NoneIssued]
  /\ updaters = EmptyMap

\* the hook is mounted before a session exists: useAuth starts with user null
InitMonitor ==
  /\ now = 0
  /\ LimiterUnused
  /\ user = FALSE
  /\ sessionConfig \in SessionTimeoutConfig
  /\ timers = {}
  /\ timeoutRef = NoTimer
  /\ warningRef = NoTimer
  /\ lastActivityRef = 0
  /\ listening = FALSE
  /\ showWarning = FALSE
  /\ timeRemaining = 0
  /\ interval = NoTime
  /\ signingOut = FALSE
  /\ lastActivityAt = NoTime
  /\ fired = NoEvent
  /\ nWarning = 0
  /\ nTimeout = 0
  /\ rerendered = FALSE
  /\ endedAt = NoTime
  /\ expired = FALSE
  /\ WakeUnused
  /\ DashboardUnmounted

NextMonitor ==
  \/ Authenticate
  \/ SessionEnds
  \/ Activity
  \/ ExtendSession
  \/ Rerender
  \/ \E tm \in timers : TimerFires(tm)
  \/ GetTimeRemaining
  \/ SessionTick

\* useSessionTimeout under any caller
SpecMonitor == InitMonitor /\ [][NextMonitor]_vars

\* ------------------------------------------------------------------------
\* AppWithSessionTimeout: the component that mounts the monitor
\* ------------------------------------------------------------------------
MaxAppMinutes == 31     \* Date.now() ranges over 0..MaxAppMinutes minutes

\* sessionConfig of AppWithSessionTimeout
AppSessionConfig ==
  [timeoutMs |-> 30 * 60 * 1000, warningMs |-> 2 * 60 * 1000,
   onWarning |-> TRUE]

\* the period of the countdown's setInterval
CountdownMs == 1000

\* The commit that follows a handler of the component, at time t. When the
\* handler changed no state (changed = FALSE) React renders nothing and the
\* timers, the listeners and the interval ivl stay. Otherwise the component
\* renders: sessionConfig is a new object, so the effect of useSessionTimeout
\* runs again; signOut is a new function, so the countdown effect runs again
\* and sets a new interval while showWarning (sw) is true.
appCommit(changed, tms, tRef, wRef, ref, lis, u, sw, ivl, t) ==
  IF changed
    THEN LET r == sessionEffect(tms, tRef, wRef, ref, u, AppSessionConfig, t)
         IN [timers |-> r.timers, timeoutRef |-> r.timeoutRef,
             warningRef |-> r.warningRef,
             lastActivityRef |-> r.lastActivityRef,
             listening |-> r.listening,
             interval |-> IF sw THEN t + CountdownMs ELSE NoTime]
  ELSE [timers |-> tms, timeoutRef |-> tRef, warningRef |-> wRef,
        lastActivityRef |-> ref, listening |-> lis, interval |-> ivl]

\* the state a commit leaves
Committed(r) ==
  /\ Monitor(r)
  /\ listening' = r.listening
  /\ interval' = r.interval

\* onAuthStateChange delivers a session
AppAuthenticate ==
  /\ ~ user
  /\ ~ signingOut
  /\ user' = TRUE
  /\ Committed(appCommit(TRUE, timers, timeoutRef, warningRef,
                          lastActivityRef, listening, TRUE, showWarning,
                          interval, now))
  /\ IdleFrom(now)
  /\ fired' = [op |-> "authenticate", at |-> now, num |-> 0]
  /\ UNCHANGED <<now, limiterVars, dashboardVars, wakeVars, sessionConfig,
                 showWarning, timeRemaining, signingOut>>

\* the session is torn down from outside (signed out in another tab, or
\* revoked): onAuthStateChange delivers no session
AppSessionEnds ==
  /\ user
  /\ user' = FALSE
  /\ Committed(appCommit(TRUE, timers, timeoutRef, warningRef,
                          lastActivityRef, listening, FALSE, showWarning,
                          interval, now))
  /\ IdleFrom(NoTime)
  /\ fired' = [op |-> "sessionEnds", at |-> now, num |-> 0]
  /\ UNCHANGED <<now, limiterVars, dashboardVars, wakeVars, sessionConfig,
                 showWarning, timeRemaining, signingOut>>

\* A timer of the monitor is due. onWarning: setTimeRemaining(2 minutes),
\* setShowWarning(true). onTimeout: setShowWarning(false), signOut().
AppTimerFires(tm) ==
  /\ tm \in timers
  /\ tm.due <= now
  /\ LET warning == (tm.kind = "warning")
         sw == warning
         tr == IF warning THEN 2 * 60 * 1000 ELSE timeRemaining
     IN /\ showWarning' = sw
        /\ timeRemaining' = tr
        /\ signingOut' = (signingOut \/ ~ warning)
        /\ Committed(appCommit(sw # showWarning \/ tr # timeRemaining,
                                timers \ {tm}, timeoutRef, warningRef,
                                lastActivityRef, listening, user, sw,
                                interval, now))
  /\ nWarning' = IF tm.kind = "warning" THEN Counted(nWarning) ELSE nWarning
  /\ nTimeout' = IF tm.kind = "timeout" THEN Counted(nTimeout) ELSE nTimeout
  /\ expired' = (expired \/ tm.kind = "timeout")
  /\ rerendered' = (rerendered \/ showWarning' # showWarning
                               \/ timeRemaining' # timeRemaining)
  /\ fired' = [op |-> IF tm.kind = "warning" THEN "onWarning" ELSE "onTimeout",
               at |-> now, num |-> 0]
  /\ UNCHANGED <<now, limiterVars, dashboardVars, wakeVars, user,
                 sessionConfig, lastActivityAt, endedAt>>

\* the countdown's interval is due: setTimeRemaining(getTimeRemaining()),
\* and at 0 setShowWarning(false) and signOut()
AppCountdown ==
  /\ interval # NoTime
  /\ interval <= now
  /\ LET remaining == getTimeRemaining(user, lastActivityRef,
                                       AppSessionConfig, now)
         sw == IF remaining <= 0 THEN FALSE ELSE showWarning
     IN /\ timeRemaining' = remaining
        /\ showWarning' = sw
        /\ signingOut' = (signingOut \/ remaining <= 0)
        /\ Committed(appCommit(sw # showWarning \/ remaining # timeRemaining,
                                timers, timeoutRef, warningRef,
                                lastActivityRef, listening, user, sw,
                                now + CountdownMs, now))
        /\ rerendered' = (rerendered \/ sw # showWarning
                                     \/ remaining # timeRemaining)
        /\ fired' = [op |-> "countdown", at |-> now, num |-> remaining]
  /\ UNCHANGED <<now, limiterVars, dashboardVars, wakeVars, user,
                 sessionConfig, lastActivityAt, nWarning, nTimeout, endedAt,
                 expired>>

\* 'Extend Session' of the dialog (rendered while user and showWarning):
\* handleExtendSession
AppExtendSession ==
  /\ user
  /\ showWarning
  /\ showWarning' = FALSE
  /\ LET e == resetTimer(timers, timeoutRef, warningRef, user,
                         AppSessionConfig, now)
     IN Committed(appCommit(TRUE, e.timers, e.timeoutRef, e.warningRef,
                            e.lastActivityRef, listening, user, FALSE,
                            interval, now))
  /\ IdleFrom(now)
  /\ fired' = [op |-> "extendSession", at |-> now,
               num |-> Cardinality(timers)]
  /\ UNCHANGED <<now, limiterVars, dashboardVars, wakeVars, user,
                 sessionConfig, timeRemaining, signingOut>>

\* 'Logout' of the dialog: handleLogout
AppLogout ==
  /\ user
  /\ showWarning
  /\ showWarning' = FALSE
  /\ signingOut' = TRUE
  /\ Committed(appCommit(TRUE, timers, timeoutRef, warningRef,
                          lastActivityRef, listening, user, FALSE, interval,
                          now))
  /\ rerendered' = TRUE
  /\ fired' = [op |-> "logout", at |-> now, num |-> 0]
  /\ UNCHANGED <<now, limiterVars, dashboardVars, wakeVars, user,
                 sessionConfig, timeRemaining, lastActivityAt, nWarning,
                 nTimeout, endedAt, expired>>

\* signOut() finishes: window.location.href = '/auth' loads the page anew,
\* without a session
SignOutCompletes ==
  /\ signingOut
  /\ user' = FALSE
  /\ timers' = {}
  /\ timeoutRef' = NoTimer
  /\ warningRef' = NoTimer
  /\ lastActivityRef' = now
  /\ listening' = FALSE
  /\ showWarning' = FALSE
  /\ timeRemaining' = 0
  /\ interval' = NoTime
  /\ signingOut' = FALSE
  /\ IdleFrom(NoTime)
  /\ fired' = [op |-> "signedOut", at |-> now, num |-> 0]
  /\ UNCHANGED <<now, limiterVars, dashboardVars, wakeVars, sessionConfig>>

\* the times at which something is due
Due == {tm.due : tm \in timers} \cup (IF interval # NoTime THEN {interval} ELSE {})

\* Date.now() advances to the next time at which a timer or the interval is
\* due, or by ten minutes if nothing is due before
AppTick ==
  /\ \A d \in Due : d > now
  /\ \E t \in Due \cup {now + 10 * 60 * 1000} :
       /\ \A d \in Due : t <= d
       /\ t <= MaxAppMinutes * 60 * 1000
       /\ now' = t
  /\ fired' = NoEvent
  /\ UNCHANGED <<limiterVars, dashboardVars, wakeVars, user, sessionConfig,
                 timers, timeoutRef, warningRef, lastActivityRef, listening,
                 wrapperVars, lastActivityAt, nWarning, nTimeout, rerendered,
                 endedAt, expired>>

InitApp ==
  /\ now = 0
  /\ LimiterUnused
  /\ user = FALSE
  /\ sessionConfig = AppSessionConfig
  /\ timers = {}
  /\ timeoutRef = NoTimer
  /\ warningRef = NoTimer
  /\ lastActivityRef = 0
  /\ listening = FALSE
  /\ showWarning = FALSE
  /\ timeRemaining = 0
  /\ interval = NoTime
  /\ signingOut = FALSE
  /\ lastActivityAt = NoTime
  /\ fired = NoEvent
  /\ nWarning = 0
  /\ nTimeout = 0
  /\ rerendered = FALSE
  /\ endedAt = NoTime
  /\ expired = FALSE
  /\ WakeUnused
  /\ DashboardUnmounted

NextApp ==
  \/ AppAuthenticate
  \/ AppSessionEnds
  \/ Activity
  \/ \E tm \in timers : AppTimerFires(tm)
  \/ AppCountdown
  \/ AppExtendSession
  \/ AppLogout
  \/ SignOutCompletes
  \/ AppTick

\* the monitor as AppWithSessionTimeout mounts it
SpecApp == InitApp /\ [][NextApp]_vars

\* ------------------------------------------------------------------------
\* AppWithSessionTimeout and SessionTimeoutModal when the page is suspended
\* ------------------------------------------------------------------------
\* While the page is frozen or the machine asleep no timer runs; when it
\* resumes, every timer that is due runs, in the order of the due times.
\* The state updates of a timer callback are queued and React commits them
\* in a task of its own, which runs before or after the next due callback.
MaxWakeMinutes == 60    \* Date.now() ranges over 0..MaxWakeMinutes minutes

\* the time for which the page is suspended: longer than timeoutMs
SuspendMs == AppSessionConfig.timeoutMs + 60 * 1000

\* Math.ceil(ms / 1000)
ceilSeconds(ms) == (ms + 999) \div 1000

\* the state the queued updates lead to
Pending ==
  IF queued = NoUpdate
    THEN [showWarning |-> showWarning, timeRemaining |-> timeRemaining]
  ELSE queued

\* the times at which a callback is due
WakeDue ==
  Due \cup (IF modalInterval # NoTime THEN {modalInterval} ELSE {})

\* the callback due at d is the next the browser runs
RunsNext(d) ==
  /\ d <= now
  /\ \A e \in WakeDue : d <= e

\* signOut() is invoked
SignOutInvoked ==
  /\ signingOut' = TRUE
  /\ nSignOut' = Counted(nSignOut)

\* A timer of the monitor runs. onWarning: setTimeRemaining(2 minutes),
\* setShowWarning(true). onTimeout: setShowWarning(false), signOut().
WakeTimerFires(tm) ==
  /\ tm \in timers
  /\ RunsNext(tm.due)
  /\ timers' = timers \ {tm}
  /\ IF tm.kind = "warning"
       THEN /\ queued' = [showWarning |-> TRUE, timeRemaining |-> 2 * 60 * 1000]
            /\ UNCHANGED <<signingOut, nSignOut>>
       ELSE /\ queued' = [Pending EXCEPT !.showWarning = FALSE]
            /\ SignOutInvoked
  /\ nWarning' = IF tm.kind = "warning" THEN Counted(nWarning) ELSE nWarning
  /\ nTimeout' = IF tm.kind = "timeout" THEN Counted(nTimeout) ELSE nTimeout
  /\ expired' = (expired \/ tm.kind = "timeout")
  /\ fired' = [op |-> IF tm.kind = "warning" THEN "onWarning" ELSE "onTimeout",
               at |-> now, num |-> 0]
  /\ UNCHANGED <<now, limiterVars, dashboardVars, user, sessionConfig,
                 timeoutRef, warningRef, lastActivityRef, listening,
                 showWarning, timeRemaining, interval, lastActivityAt,
                 rerendered, endedAt, modalInterval>>

\* the countdown's interval runs: setTimeRemaining(getTimeRemaining()), and
\* at 0 setShowWarning(false) and signOut()
WakeCountdown ==
  /\ interval # NoTime
  /\ RunsNext(interval)
  /\ LET remaining == getTimeRemaining(user, lastActivityRef,
                                       AppSessionConfig, now)
     IN /\ queued' = [showWarning |-> IF remaining <= 0
                                        THEN FALSE ELSE Pending.showWarning,
                      timeRemaining |-> remaining]
        /\ IF remaining <= 0
             THEN SignOutInvoked
             ELSE UNCHANGED <<signingOut, nSignOut>>
        /\ fired' = [op |-> "countdown", at |-> now, num |-> remaining]
  /\ interval' = now + CountdownMs
  /\ UNCHANGED <<now, limiterVars, dashboardVars, user, sessionConfig, timers,
                 timeoutRef, warningRef, lastActivityRef, listening,
                 showWarning, timeRemaining, lastActivityAt, nWarning,
                 nTimeout, rerendered, endedAt, expired, modalInterval>>

\* the dialog's interval runs: setCountdown(Math.ceil(timeRemaining / 1000))
\* with the timeRemaining of the latest commit, and at 0 onLogout(), which
\* is handleLogout: setShowWarning(false), signOut()
ModalCountdown ==
  /\ modalInterval # NoTime
  /\ RunsNext(modalInterval)
  /\ LET remaining == ceilSeconds(timeRemaining)
     IN /\ IF remaining <= 0
             THEN /\ queued' = [Pending EXCEPT !.showWarning = FALSE]
                  /\ SignOutInvoked
             ELSE UNCHANGED <<queued, signingOut, nSignOut>>
        /\ fired' = [op |-> "modalCountdown", at |-> now, num |-> remaining]
  /\ modalInterval' = now + CountdownMs
  /\ UNCHANGED <<now, limiterVars, dashboardVars, user, sessionConfig, timers,
                 timeoutRef, warningRef, lastActivityRef, listening,
                 showWarning, timeRemaining, interval, lastActivityAt,
                 nWarning, nTimeout, rerendered, endedAt, expired>>

\* React commits the queued updates. When they change the state the
\* component renders: the effects of the hook and of the countdown run again
\* (appCommit), and so does the effect of the dialog, whose onLogout is a
\* new function; it sets its interval while the dialog is rendered and open.
WakeCommit ==
  /\ queued # NoUpdate
  /\ LET changed == \/ queued.showWarning # showWarning
                    \/ queued.timeRemaining # timeRemaining
     IN /\ Committed(appCommit(changed, timers, timeoutRef, warningRef,
                                lastActivityRef, listening, user,
                                queued.showWarning, interval, now))
        /\ modalInterval' =
             IF changed
               THEN IF user /\ queued.showWarning
                      THEN now + CountdownMs ELSE NoTime
             ELSE modalInterval
        /\ rerendered' = (rerendered \/ changed)
  /\ showWarning' = queued.showWarning
  /\ timeRemaining' = queued.timeRemaining
  /\ queued' = NoUpdate
  /\ fired' = [op |-> "commit", at |-> now, num |-> 0]
  /\ UNCHANGED <<now, limiterVars, dashboardVars, user, sessionConfig,
                 signingOut, lastActivityAt, nWarning, nTimeout, endedAt,
                 expired, nSignOut>>

\* signOut() finishes: window.location.href = '/auth' loads the page anew,
\* without a session
WakeSignOutCompletes ==
  /\ signingOut
  /\ user' = FALSE
  /\ timers' = {}
  /\ timeoutRef' = NoTimer
  /\ warningRef' = NoTimer
  /\ lastActivityRef' = now
  /\ listening' = FALSE
  /\ showWarning' = FALSE
  /\ timeRemaining' = 0
  /\ interval' = NoTime
  /\ signingOut' = FALSE
  /\ IdleFrom(NoTime)
  /\ queued' = NoUpdate
  /\ modalInterval' = NoTime
  /\ nSignOut' = 0
  /\ fired' = [op |-> "signedOut", at |-> now, num |-> 0]
  /\ UNCHANGED <<now, limiterVars, dashboardVars, sessionConfig>>

\* Date.now() advances to the next time at which a callback is due; React
\* has committed before
WakeTick ==
  /\ queued = NoUpdate
  /\ \A d \in WakeDue : d > now
  /\ \E t \in WakeDue :
       /\ \A d \in WakeDue : t <= d
       /\ t <= MaxWakeMinutes * 60 * 1000
       /\ now' = t
  /\ fired' = NoEvent
  /\ UNCHANGED <<limiterVars, dashboardVars, wakeVars, user, sessionConfig,
                 timers, timeoutRef, warningRef, lastActivityRef, listening,
                 wrapperVars, lastActivityAt, nWarning, nTimeout, rerendered,
                 endedAt, expired>>

\* the page is suspended for SuspendMs with a user, and resumes
WakeSuspend ==
  /\ user
  /\ queued = NoUpdate
  /\ now + SuspendMs <= MaxWakeMinutes * 60 * 1000
  /\ now' = now + SuspendMs
  /\ fired' = NoEvent
  /\ UNCHANGED <<limiterVars, dashboardVars, wakeVars, user, sessionConfig,
                 timers, timeoutRef, warningRef, lastActivityRef, listening,
                 wrapperVars, lastActivityAt, nWarning, nTimeout, rerendered,
                 endedAt, expired>>

NextWake ==
  \/ AppAuthenticate
  \/ \E tm \in timers : WakeTimerFires(tm)
  \/ WakeCountdown
  \/ ModalCountdown
  \/ WakeCommit
  \/ WakeSignOutCompletes
  \/ WakeTick
  \/ WakeSuspend

\* AppWithSessionTimeout on a page that may be suspended
SpecWake == InitApp /\ [][NextWake]_vars

\* ------------------------------------------------------------------------
\* The two limiters of useAuth, each called with two identifiers
\* ------------------------------------------------------------------------
\* useRateLimiter('signIn', ...) and useRateLimiter('signUp', ...) with
\* different configurations, as in useAuth, scaled to the time bound
FrameConfig ==
  [k \in Keys |->
     IF k = "signIn"
       THEN [maxAttempts |-> 2, windowMs |-> 1, blockDurationMs |-> 1]
       ELSE [maxAttempts |-> 3, windowMs |-> 2, blockDurationMs |-> 2]]

\* the calls of the frame specification: both limiters with 'user', and the
\* signIn limiter with a second identifier
FrameSlots == {<<"signIn", "user">>, <<"signUp", "user">>, <<"signIn", "guest">>}

MaxFrameTime == 2       \* Date.now() ranges over 0..MaxFrameTime

InitFrame ==
  /\ now = 0
  /\ localStorage = EmptyMap
  /\ attempts = [k \in Keys |-> EmptyMap]
  /\ config = FrameConfig
  /\ last = NoCall
  /\ pending = [k \in Keys |-> 0]
  /\ ticks = 0
  /\ burst = [s \in Slots |-> 0]
  /\ blockDue = [s \in Slots |-> NoTime]
  /\ purged = {}
  /\ reloadBlock = [s \in Slots |-> NoTime]
  /\ issued = [k \in Keys |-> NoneIssued]
  /\ updaters = EmptyMap
  /\ SessionUnmounted

FrameTick ==
  /\ now < MaxFrameTime
  /\ Tick

NextFrame ==
  \/ \E s \in FrameSlots : IsBlocked(s[1], s[2])
  \/ \E s \in FrameSlots : RecordAttempt(s[1], s[2])
  \/ FrameTick
  \/ Reload

SpecFrame == InitFrame /\ [][NextFrame]_vars

\* ------------------------------------------------------------------------
\* Properties of the idle session monitor
\* ------------------------------------------------------------------------
\* the times at which the idle period that started at lastActivityAt warns
\* and expires
WarningDue == lastActivityAt + (sessionConfig.timeoutMs - sessionConfig.warningMs)

TimeoutDue == lastActivityAt + sessionConfig.timeoutMs

\* a user is authenticated and idle since lastActivityAt, and no sign-out
\* has been started
Idle == user /\ lastActivityAt # NoTime /\ ~ signingOut

\* C13: with an authenticated user and no activity signal or extendSession()
\* since the monitor was armed at lastActivityAt, onWarning is invoked exactly
\* once, at lastActivityAt + timeoutMs - warningMs, and onTimeout exactly
\* once, at lastActivityAt + timeoutMs.
C13_OneWarningOneTimeout ==
  (Idle /\ sessionConfig.onWarning) =>
    /\ nWarning <= 1
    /\ nTimeout <= 1
    /\ now < WarningDue => nWarning = 0
    /\ now > WarningDue => nWarning = 1
    /\ now < TimeoutDue => nTimeout = 0
    /\ now > TimeoutDue => nTimeout = 1
    /\ fired.op = "onWarning" => fired.at = WarningDue
    /\ fired.op = "onTimeout" => fired.at = TimeoutDue

\* C15: in AppWithSessionTimeout an authenticated user who has been inactive
\* since lastActivityAt is signed out no later than timeoutMs afterwards:
\* until signOut is invoked the timeout stays scheduled for
\* lastActivityAt + timeoutMs (the dialog and its countdown do not move it),
\* and the clock does not pass that time.
C15_IdleSessionIsEnded ==
  Idle =>
    /\ now <= TimeoutDue
    /\ [kind |-> "timeout", due |-> TimeoutDue] \in timers

\* the two triggers a reset at time t schedules
Scheduled(t) ==
  (IF sessionConfig.onWarning
     THEN {[kind |-> "warning",
            due |-> t + (sessionConfig.timeoutMs - sessionConfig.warningMs)]}
     ELSE {})
  \cup {[kind |-> "timeout", due |-> t + sessionConfig.timeoutMs]}

\* the last step was extendSession(), or an activity signal that reached
\* handleActivity, with a user
ResetByUser ==
  /\ user
  /\ \/ fired.op = "extendSession"
     \/ fired.op = "activity" /\ listening

\* C14: the most recent reset wins. After extendSession() or an activity
\* signal at t1 the pending triggers are exactly the warning due at
\* t1 + timeoutMs - warningMs and the timeout due at t1 + timeoutMs; at every
\* moment every pending trigger was scheduled by the most recent reset, so a
\* callback is only ever invoked at the time the most recent reset set.
C14_MostRecentResetWins ==
  /\ ResetByUser => (lastActivityAt = now /\ timers = Scheduled(now))
  /\ timers \subseteq Scheduled(lastActivityRef)
  /\ fired.op = "onWarning" =>
       fired.at = lastActivityRef
                    + (sessionConfig.timeoutMs - sessionConfig.warningMs)
  /\ fired.op = "onTimeout" =>
       fired.at = lastActivityRef + sessionConfig.timeoutMs

\* extendSession() was called after the warning had fired (only the timeout
\* was pending), later than the arming
C14_Witness ==
  /\ user
  /\ sessionConfig.onWarning
  /\ fired.op = "extendSession"
  /\ fired.num = 1
  /\ now > 0
  /\ timers = Scheduled(now)

\* C16: once the user is unauthenticated no trigger is pending and no
\* listener is registered, and neither onWarning nor onTimeout is invoked
\* while there is no user, whatever time passes and whatever activity signal
\* or extendSession() call arrives.
C16_NoCallbackAfterSessionEnds ==
  /\ ~ user => (timers = {} /\ ~ listening /\ nWarning = 0 /\ nTimeout = 0)
  /\ fired.op \in {"onWarning", "onTimeout"} => user

\* the session ended while the timeout was pending, its time has passed, and
\* extendSession() is called without a user
C16_Witness ==
  /\ ~ user
  /\ endedAt # NoTime
  /\ timeoutRef # NoTimer
  /\ endedAt < timeoutRef.due
  /\ now > timeoutRef.due
  /\ fired.op = "extendSession"

\* C17: at most one warning trigger and at most one timeout trigger are
\* pending, both scheduled from the same lastActivityRef; extendSession()
\* leaves exactly one pair however many triggers were pending, and invokes no
\* callback; and as long as the component that owns the hook has not rendered
\* again, no callback is invoked twice after the last reset, however many
\* times extendSession() was called.
C17_OnePairOfTriggers ==
  /\ ~ rerendered => (nWarning <= 1 /\ nTimeout <= 1)
  /\ Cardinality({tm \in timers : tm.kind = "warning"}) <= 1
  /\ Cardinality({tm \in timers : tm.kind = "timeout"}) <= 1
  /\ \A tm \in timers :
       tm.due = lastActivityRef + sessionConfig.timeoutMs
                  - (IF tm.kind = "warning" THEN sessionConfig.warningMs ELSE 0)
  /\ (fired.op = "extendSession" /\ user) =>
       /\ timers = Scheduled(now)
       /\ nWarning = 0
       /\ nTimeout = 0

\* extendSession() was called with both triggers pending
C17_Witness ==
  /\ user
  /\ fired.op = "extendSession"
  /\ fired.num = 2
  /\ Cardinality(timers) = 2
  /\ now > 0

\* C18: once onTimeout has fired no trigger is pending until the session is
\* authenticated again, whatever activity signal or extendSession() arrives.
C18_ExpiredIsTerminal ==
  expired => timers = {}

\* C19: getTimeRemaining() returns max(0, timeoutMs - (now - lastActivityAt))
\* while a user is authenticated and 0 otherwise; it is within 0..timeoutMs,
\* and it is 0 when onTimeout fires. (num is the value getTimeRemaining
\* returned to the caller, to the countdown, or at the callback.)
C19_TimeRemaining ==
  /\ fired.op \in {"getTimeRemaining", "countdown"} =>
       /\ fired.num = IF user
                        THEN Max(0, sessionConfig.timeoutMs
                                      - (now - lastActivityAt))
                        ELSE 0
       /\ fired.num >= 0
       /\ fired.num <= sessionConfig.timeoutMs
  /\ fired.op = "onTimeout" => fired.num = 0

\* ------------------------------------------------------------------------
\* Properties of the two limiters, checked under SpecFrame
\* ------------------------------------------------------------------------
\* the step leaves what the limiters hold for slot s as it was: the stored
\* value, the record of the map, what isBlocked returns and what
\* getRemainingAttempts returns
Untouched(s) ==
  LET k == s[1]
      identifier == s[2]
      sk == storageKey(k, identifier)
  IN /\ (sk \in DOMAIN localStorage') = (sk \in DOMAIN localStorage)
     /\ sk \in DOMAIN localStorage => localStorage'[sk] = localStorage[sk]
     /\ (identifier \in DOMAIN attempts'[k]) = (identifier \in DOMAIN attempts[k])
     /\ identifier \in DOMAIN attempts[k] =>
          attempts'[k][identifier] = attempts[k][identifier]
     /\ isBlocked(localStorage', attempts'[k], k, identifier, now').ret
          = isBlocked(localStorage, attempts[k], k, identifier, now).ret
     /\ getRemainingAttempts(localStorage', attempts'[k], config'[k], k,
                              identifier, now').ret
          = getRemainingAttempts(localStorage, attempts[k], config[k], k,
                                 identifier, now).ret

\* C20: a call of recordAttempt or isBlocked of limiter k on an identifier
\* changes nothing of any other pair of limiter and identifier: not its
\* stored value, not its record in the map, not its blocked status and not
\* its remaining attempts.
C20_RecordsAreIndependent ==
  [][\A s \in Slots :
       (last'.op \in {"recordAttempt", "isBlocked"} /\ s # <<last'.key, last'.id>>)
         => Untouched(s)]_vars

\* the sign-in attempts of 'user' have just been exhausted, while the sign-up
\* limiter holds a record of 'user' and the sign-in limiter one of 'guest',
\* and neither of these is blocked
C20_Witness ==
  /\ last.op = "recordAttempt"
  /\ last.key = "signIn"
  /\ last.id = "user"
  /\ last.ret
  /\ isBlockedNow("signIn", "user")
  /\ Stored("signUp", "user")
  /\ "user" \in DOMAIN attempts["signUp"]
  /\ ~ isBlockedNow("signUp", "user")
  /\ getRemainingAttempts(localStorage, attempts["signUp"], config["signUp"],
                          "signUp", "user", now).ret > 0
  /\ "guest" \in DOMAIN attempts["signIn"]
  /\ ~ isBlockedNow("signIn", "guest")

\* ------------------------------------------------------------------------
\* useAuth.signOut and the keys of localStorage
\* ------------------------------------------------------------------------
\* A key of localStorage is the sequence of the pieces of its text, so that
\* `rateLimit_${key}_${identifier}` is <<"rateLimit", key, identifier>>.
\* key.startsWith(piece)
startsWith(key, piece) == Len(key) >= 1 /\ key[1] = piece

\* key.includes(piece)
includes(key, piece) == \E i \in DOMAIN key : key[i] = piece

\* the keys other than the limiter's that the store holds: the two forms of
\* key the auth client uses, and two keys of other scripts of the origin
AuthTokenKey == <<"supabase.auth.", "token">>

AuthSessionKey == <<"sb-", "project-auth-token">>

ThemeKey == <<"theme">>

UsbDevicesKey == <<"u", "sb-", "devices">>

OtherKeys == {AuthTokenKey, AuthSessionKey, ThemeKey, UsbDevicesKey}

OtherValue == << <<"value", 1>> >>

\* the key is one of the limiter's
LimiterKey(key) == startsWith(key, "rateLimit")

\* the key is one of the auth client's
AuthKey(key) == startsWith(key, "supabase.auth.") \/ startsWith(key, "sb-")

\* cleanupAuthState of signOut: the store it leaves
cleanupAuthState(ls) ==
  [key \in {x \in DOMAIN ls :
              ~ (\/ startsWith(x, "supabase.auth.")
                 \/ includes(x, "sb-")
                 \/ startsWith(x, "rateLimit"))} |-> ls[key]]

\* signOut() up to its await: cleanupAuthState(), then the backend call is
\* issued. num is the number of limiter records the cleanup removed.
SignOut ==
  /\ ~ signingOut
  /\ signingOut' = TRUE
  /\ localStorage' = cleanupAuthState(localStorage)
  /\ last' = [NoCall EXCEPT
                !.op = "signOut",
                !.num = Cardinality({x \in DOMAIN localStorage : LimiterKey(x)})]
  /\ UNCHANGED <<now, attempts, config, issued, pending, ticks, burst, blockDue,
                 purged, reloadBlock>>
  /\ UNCHANGED <<user, sessionConfig, timers, timeoutRef, warningRef,
                 lastActivityRef, listening, showWarning, timeRemaining,
                 interval, lastActivityAt, fired, nWarning, nTimeout,
                 rerendered, endedAt, expired>>
  /\ UNCHANGED <<updaters, wakeVars, dashboardVars>>

\* the backend call returns or throws: window.location.href = '/auth' loads
\* the page anew
SignOutRedirects ==
  /\ signingOut
  /\ signingOut' = FALSE
  /\ PageLoads
  /\ UNCHANGED <<user, sessionConfig, timers, timeoutRef, warningRef,
                 lastActivityRef, listening, showWarning, timeRemaining,
                 interval, lastActivityAt, fired, nWarning, nTimeout,
                 rerendered, endedAt, expired>>
  /\ UNCHANGED <<wakeVars, dashboardVars>>

\* the calls of this specification: both limiters of useAuth with 'user'
SignOutSlots == {<<"signIn", "user">>, <<"signUp", "user">>}

InitSignOut ==
  /\ now = 0
  /\ localStorage = [key \in OtherKeys |-> OtherValue]
  /\ attempts = [k \in Keys |-> EmptyMap]
  /\ config = FrameConfig
  /\ last = NoCall
  /\ pending = [k \in Keys |-> 0]
  /\ ticks = 0
  /\ burst = [s \in Slots |-> 0]
  /\ blockDue = [s \in Slots |-> NoTime]
  /\ purged = {}
  /\ reloadBlock = [s \in Slots |-> NoTime]
  /\ issued = [k \in Keys |-> NoneIssued]
  /\ updaters = EmptyMap
  /\ SessionUnmounted

NextSignOut ==
  \/ \E s \in SignOutSlots : IsBlocked(s[1], s[2])
  \/ \E s \in SignOutSlots : RecordAttempt(s[1], s[2])
  \/ FrameTick
  \/ Reload
  \/ SignOut
  \/ SignOutRedirects

SpecSignOut == InitSignOut /\ [][NextSignOut]_vars

\* the limiter's record of slot s leaves the store in this step
Leaves(s) ==
  /\ storageKey(s[1], s[2]) \in DOMAIN localStorage
  /\ storageKey(s[1], s[2]) \notin DOMAIN localStorage'

\* C21: signOut leaves no limiter record in the store and leaves every key
\* that is neither the limiter's nor the auth client's as it was; in every
\* other step a limiter record leaves the store only when isBlocked purges
\* an expired block or discards an unreadable value.
C21_SignOutClearsLimiterOnly ==
  [][/\ last'.op = "signOut" =>
          /\ \A key \in DOMAIN localStorage' : ~ LimiterKey(key)
          /\ \A key \in DOMAIN localStorage :
               (~ LimiterKey(key) /\ ~ AuthKey(key)) =>
                 /\ key \in DOMAIN localStorage'
                 /\ localStorage'[key] = localStorage[key]
     /\ last'.op # "signOut" =>
          \A s \in Slots :
            Leaves(s) => (ExpiredBlock(s[1], s[2]) \/ Unreadable(s[1], s[2]))
    ]_vars

\* ------------------------------------------------------------------------
\* Properties of the attempt records, checked under Spec
\* ------------------------------------------------------------------------
\* the attempt records held for the identifier: the one of the map and the
\* one the stored text parses to
RecordsOf(k, identifier) ==
  (IF identifier \in DOMAIN attempts[k] THEN {attempts[k][identifier]} ELSE {})
  \cup (IF Stored(k, identifier) /\ ~ Unreadable(k, identifier)
          THEN {StoredRecord(k, identifier)} ELSE {})

\* C22: every attempt record, stored or in memory, with blocked = true has
\* blockedUntil set, and blockedUntil is later than the record's firstAttempt
\* (its window start).
C22_BlockedHasBlockedUntil ==
  \A k \in DOMAIN attempts, i \in Identifiers :
    \A r \in RecordsOf(k, i) :
      r.blocked =>
        /\ "blockedUntil" \in DOMAIN r
        /\ r.blockedUntil > r.firstAttempt

\* a record was blocked by an attempt later than the first of its window,
\* and is held both in the map and in the store
C22_Witness ==
  \E k \in DOMAIN attempts, i \in Identifiers :
    /\ i \in DOMAIN attempts[k]
    /\ Stored(k, i)
    /\ StoredRecord(k, i) = attempts[k][i]
    /\ attempts[k][i].blocked
    /\ attempts[k][i].blockedUntil
         > attempts[k][i].firstAttempt + config[k].blockDurationMs

\* C23: every attempt record has blocked = true exactly when its count has
\* reached maxAttempts, and its count never exceeds maxAttempts.
C23_BlockedIffCountReached ==
  \A k \in DOMAIN attempts, i \in Identifiers :
    \A r \in RecordsOf(k, i) :
      /\ r.blocked = (r.count >= config[k].maxAttempts)
      /\ r.count <= config[k].maxAttempts

\* ------------------------------------------------------------------------
\* Further properties of the idle session monitor
\* ------------------------------------------------------------------------
\* C24: with a config that gives onWarning (0 < warningMs < timeoutMs),
\* onTimeout is only invoked in an idle period in which onWarning has been
\* invoked before, and the warning of a pending pair is due before its
\* timeout.
C24_WarningBeforeTimeout ==
  sessionConfig.onWarning =>
    /\ nTimeout > 0 => nWarning > 0
    /\ fired.op = "onTimeout" => nWarning > 0
    /\ \A w \in timers, o \in timers :
         (w.kind = "warning" /\ o.kind = "timeout") => w.due < o.due

\* onTimeout has just been invoked, after the warning of the same period
C24_Witness ==
  /\ sessionConfig.onWarning
  /\ user
  /\ fired.op = "onTimeout"
  /\ nWarning = 1
  /\ nTimeout = 1
  /\ ~ rerendered

\* C26: in AppWithSessionTimeout the dialog is open only while the monitor
\* has warned and not yet expired: showWarning implies a user and
\* 0 < getTimeRemaining() <= warningMs.
C26_DialogOnlyWhileWarned ==
  showWarning =>
    /\ user
    /\ getTimeRemaining(user, lastActivityRef, sessionConfig, now) > 0
    /\ getTimeRemaining(user, lastActivityRef, sessionConfig, now)
         <= sessionConfig.warningMs

\* C25: in one idle period signOut is invoked at most once, whichever of the
\* monitor's onTimeout, the countdown of AppWithSessionTimeout and the
\* countdown of SessionTimeoutModal reaches it.
C25_SignOutAtMostOnce ==
  nSignOut <= 1

\* ------------------------------------------------------------------------
\* A property of useAuth, checked under SpecCalls
\* ------------------------------------------------------------------------
\* C27: for signIn and for signUp, the backend calls issued at times that
\* lie less than windowMs apart are at most maxAttempts, whatever sequence
\* of calls and page reloads is made.
C27_BackendCallsLimited ==
  \A k \in Keys : issued[k].n <= config[k].maxAttempts

\* ------------------------------------------------------------------------
\* Two tabs of one browser on the sign-in form
\* ------------------------------------------------------------------------
\* each tab runs the page and so its own useRateLimiter('signIn', ...), with
\* its own map; localStorage is the one store of the origin
Tabs == {"tabA", "tabB"}

\* the operation key of the hook instance of either tab
TabKey == "signIn"

InitTabs ==
  /\ now = 0
  /\ localStorage = EmptyMap
  /\ attempts = [tab \in Tabs |-> EmptyMap]
  /\ config \in {[tab \in Tabs |-> cfg] : cfg \in RateLimiterConfig}
  /\ last = NoCall
  /\ pending = [k \in Keys |-> 0]
  /\ ticks = 0
  /\ burst = [s \in Slots |-> 0]
  /\ blockDue = [s \in Slots |-> NoTime]
  /\ purged = {}
  /\ reloadBlock = [s \in Slots |-> NoTime]
  /\ issued = [k \in Keys |-> NoneIssued]
  /\ updaters = EmptyMap
  /\ SessionUnmounted

\* isBlocked(identifier) in a tab
TabIsBlocked(tab, identifier) ==
  LET r == isBlocked(localStorage, attempts[tab], TabKey, identifier, now)
  IN /\ tab \notin DOMAIN updaters
     /\ localStorage' = r.ls
     /\ attempts' = [attempts EXCEPT ![tab] = r.m]
     /\ last' = [NoCall EXCEPT !.op = "isBlocked", !.key = TabKey,
                                !.id = identifier, !.ret = r.ret]
     /\ UNCHANGED <<now, config, issued, pending, ticks, burst, blockDue,
                    purged, reloadBlock, updaters>>
     /\ UNCHANGED <<sessionVars, wakeVars, dashboardVars>>

\* recordAttempt(identifier) in a tab, up to its return: isBlocked is
\* consulted and, unless it says blocked, the updater is handed to
\* setAttempts. The store is written when React runs the updater, and the
\* other tab, which is another thread, may run in between.
TabRecordAttempt(tab, identifier) ==
  LET b == isBlocked(localStorage, attempts[tab], TabKey, identifier, now)
  IN /\ tab \notin DOMAIN updaters
     /\ localStorage' = b.ls
     /\ attempts' = [attempts EXCEPT ![tab] = b.m]
     /\ updaters' = IF b.ret THEN updaters
                    ELSE MapSet(updaters, tab,
                                [identifier |-> identifier, now |-> now])
     /\ last' = [NoCall EXCEPT !.op = "recordAttempt", !.key = TabKey,
                                !.id = identifier, !.ret = ~ b.ret]
     /\ UNCHANGED <<now, config, issued, pending, ticks, burst, blockDue,
                    purged, reloadBlock>>
     /\ UNCHANGED <<sessionVars, wakeVars, dashboardVars>>

\* React runs the updater that the tab's recordAttempt queued
TabUpdater(tab) ==
  /\ tab \in DOMAIN updaters
  /\ LET u == updaters[tab]
         r == accountAttempt(localStorage, attempts[tab], config[tab], TabKey,
                             u.identifier, u.now)
     IN /\ localStorage' = r.ls
        /\ attempts' = [attempts EXCEPT ![tab] = r.m]
  /\ updaters' = MapDelete(updaters, tab)
  /\ last' = [NoCall EXCEPT !.op = "updater", !.key = TabKey,
                             !.id = updaters[tab].identifier]
  /\ UNCHANGED <<now, config, issued, pending, ticks, burst, blockDue,
                 purged, reloadBlock>>
  /\ UNCHANGED <<sessionVars, wakeVars, dashboardVars>>

\* the clock advances; an updater is run within the instant it was queued in
TabTick ==
  /\ updaters = EmptyMap
  /\ Tick

NextTabs ==
  \/ \E tab \in Tabs, identifier \in Identifiers : TabIsBlocked(tab, identifier)
  \/ \E tab \in Tabs, identifier \in Identifiers :
       TabRecordAttempt(tab, identifier)
  \/ \E tab \in Tabs : TabUpdater(tab)
  \/ TabTick

SpecTabs == InitTabs /\ [][NextTabs]_vars

\* the map of the tab holds a block of the identifier that has not expired:
\* the tab has written it
WroteActiveBlock(tab, identifier) ==
  /\ identifier \in DOMAIN attempts[tab]
  /\ BlockedWithUntil(attempts[tab][identifier])
  /\ now < attempts[tab][identifier].blockedUntil

\* every tab answers isBlocked(identifier) with true
BlockedInEveryTab(identifier) ==
  \A tab \in Tabs :
    isBlocked(localStorage, attempts[tab], TabKey, identifier, now).ret

\* C28: with two tabs sharing the store and their recordAttempt steps
\* interleaved, a block in the store that has not expired is still there,
\* blocked, after every step that does not reach its blockedUntil, and while
\* a block written by one tab has not expired isBlocked is true in both.
C28_BlockSurvivesOtherTab ==
  [][\A identifier \in Identifiers :
       /\ (ActiveBlockStored(TabKey, identifier)
             /\ now' < StoredRecord(TabKey, identifier).blockedUntil) =>
            ActiveBlockStored(TabKey, identifier)'
       /\ (\E tab \in Tabs : WroteActiveBlock(tab, identifier)') =>
            BlockedInEveryTab(identifier)'
    ]_vars

\* ------------------------------------------------------------------------
\* One hook instance between two page loads
\* ------------------------------------------------------------------------
\* the calls of Spec, on a page that is not reloaded
NextMounted ==
  \/ \E k \in DOMAIN attempts, identifier \in Identifiers :
       IsBlocked(k, identifier)
  \/ \E k \in DOMAIN attempts, identifier \in Identifiers :
       RecordAttempt(k, identifier)
  \/ \E k \in DOMAIN attempts, identifier \in Identifiers :
       GetRemainingAttempts(k, identifier)
  \/ \E k \in DOMAIN attempts, identifier \in Identifiers :
       GetBlockedTimeRemaining(k, identifier)
  \/ Tick

SpecMounted == Init /\ [][NextMounted]_vars

\* the map and the store hold the same record of the identifier
SameRecord(k, identifier) ==
  /\ identifier \in DOMAIN attempts[k]
  /\ Stored(k, identifier)
  /\ ~ JSONthrows(localStorage[storageKey(k, identifier)])
  /\ StoredRecord(k, identifier) = attempts[k][identifier]

\* C29: on a page that is not reloaded, after every limiter operation the
\* map and the store agree on every identifier: neither holds a record, or
\* both hold the same count, firstAttempt, blocked and blockedUntil.
C29_MapAgreesWithStore ==
  \A k \in DOMAIN attempts, identifier \in Identifiers :
    \/ identifier \notin DOMAIN attempts[k] /\ ~ Stored(k, identifier)
    \/ SameRecord(k, identifier)

\* recordAttempt has just written a blocking record to both
C29_Witness ==
  /\ last.op = "recordAttempt"
  /\ last.ret
  /\ SameRecord(last.key, last.id)
  /\ attempts[last.key][last.id].blocked
  /\ attempts[last.key][last.id].count = 3

\* ------------------------------------------------------------------------
\* App: the dashboard, its menu and the Shipments page
\* ------------------------------------------------------------------------
MaxRoleFetches == 2     \* fetchUserRole() calls in flight: 0..MaxRoleFetches

\* UserRole of useUserRole
Roles == {"administrator", "farmer", "transporter"}

\* getMenuItems(): the ids of the menu of the role, in order
getMenuItems(role) ==
  <<"dashboard">>
  \o (IF role = "farmer" \/ role = "administrator"
        THEN <<"shipments">> ELSE << >>)
  \o (IF role = "administrator" THEN <<"inventory">> ELSE << >>)
  \o <<"reports">>

MenuIds(role) == {getMenuItems(role)[i] : i \in DOMAIN getMenuItems(role)}

\* what App returns: nothing without a user, the role selection without a
\* role, the spinner while the role is loading, else the layout
AppRenders(u, loading, role) ==
  IF ~ u THEN "null"
  ELSE IF ~ loading /\ role = "none" THEN "RoleSelection"
  ELSE IF loading THEN "spinner"
  ELSE "layout"

\* mutant: the Shipments page is rendered whatever the role
MainContentWithoutRole(role, page) ==
  IF page = "dashboard" THEN "Dashboard"
  ELSE IF page = "shipments" THEN "Shipments"
  ELSE IF page = "inventory" /\ role = "administrator" THEN "Inventory"
  ELSE IF page = "reports" THEN "EnhancedReports"
  ELSE "nothing"

\* the page component that <main> of the layout holds
MainContent(role, page) ==
  IF page = "dashboard" THEN "Dashboard"
  ELSE IF page = "shipments" /\ (role = "farmer" \/ role = "administrator")
    THEN "Shipments"
  ELSE IF page = "inventory" /\ role = "administrator" THEN "Inventory"
  ELSE IF page = "reports" THEN "EnhancedReports"
  ELSE "nothing"

\* Shipments renders its form for these roles only
FormRendered(role) == role = "farmer" \/ role = "administrator"

\* Shipments.handleSubmit of a render with the role: the toast it shows and
\* whether the insert is sent. filled: the required fields are filled;
\* ok: the insert returns no error.
handleSubmit(role, filled, ok) ==
  IF role = "transporter" THEN [toast |-> "Access Denied", insert |-> FALSE]
  ELSE IF ~ filled THEN [toast |-> "Error", insert |-> FALSE]
  ELSE IF ok THEN [toast |-> "Success", insert |-> TRUE]
  ELSE [toast |-> "Error", insert |-> TRUE]

\* the idle session monitor is left out of the dashboard's behaviour
MonitorLeftOut ==
  UNCHANGED <<sessionConfig, timers, timeoutRef, warningRef, lastActivityRef,
              listening, showWarning, timeRemaining, interval, signingOut,
              lastActivityAt, fired, nWarning, nTimeout, rerendered, endedAt,
              expired>>

\* a user is signed in: the effect of useUserRole starts fetchUserRole()
DashboardSignIn ==
  /\ ~ user
  /\ user' = TRUE
  /\ roleLoading' = TRUE
  /\ roleFetches' = 1
  /\ UNCHANGED <<userRole, currentPage, toast, inserted>>
  /\ MonitorLeftOut
  /\ UNCHANGED <<now, limiterVars, wakeVars>>

\* the auth client hands out a new user object (a refreshed token): the
\* effect of useUserRole runs again
UserRefreshed ==
  /\ user
  /\ roleFetches < MaxRoleFetches
  /\ roleLoading' = TRUE
  /\ roleFetches' = roleFetches + 1
  /\ UNCHANGED <<user, userRole, currentPage, toast, inserted>>
  /\ MonitorLeftOut
  /\ UNCHANGED <<now, limiterVars, wakeVars>>

\* fetchUserRole() returns: the role of the row, or null without a row or
\* on an error
FetchUserRoleReturns(role) ==
  /\ user
  /\ roleFetches > 0
  /\ userRole' = role
  /\ roleLoading' = FALSE
  /\ roleFetches' = roleFetches - 1
  /\ UNCHANGED <<user, currentPage, toast, inserted>>
  /\ MonitorLeftOut
  /\ UNCHANGED <<now, limiterVars, wakeVars>>

\* onRoleSelect of RoleSelection: assignRole(role)
AssignRole(role, ok) ==
  /\ AppRenders(user, roleLoading, userRole) = "RoleSelection"
  /\ userRole' = IF ok THEN role ELSE userRole
  /\ UNCHANGED <<user, roleLoading, roleFetches, currentPage, toast, inserted>>
  /\ MonitorLeftOut
  /\ UNCHANGED <<now, limiterVars, wakeVars>>

\* onClick of a button of the menu
SelectPage(page) ==
  /\ AppRenders(user, roleLoading, userRole) = "layout"
  /\ page \in MenuIds(userRole)
  /\ currentPage' = page
  /\ UNCHANGED <<user, userRole, roleLoading, roleFetches, toast, inserted>>
  /\ MonitorLeftOut
  /\ UNCHANGED <<now, limiterVars, wakeVars>>

\* the form of the Shipments page is submitted
SubmitShipment(filled, ok) ==
  /\ AppRenders(user, roleLoading, userRole) = "layout"
  /\ MainContent(userRole, currentPage) = "Shipments"
  /\ FormRendered(userRole)
  /\ LET r == handleSubmit(userRole, filled, ok)
     IN /\ toast' = r.toast
        /\ inserted' = IF r.insert THEN inserted \cup {userRole} ELSE inserted
  /\ UNCHANGED <<user, userRole, roleLoading, roleFetches, currentPage>>
  /\ MonitorLeftOut
  /\ UNCHANGED <<now, limiterVars, wakeVars>>

\* handleSignOut: signOut(), then the page is loaded anew
DashboardSignOut ==
  /\ AppRenders(user, roleLoading, userRole) = "layout"
  /\ user' = FALSE
  /\ userRole' = "none"
  /\ roleLoading' = FALSE
  /\ roleFetches' = 0
  /\ currentPage' = "dashboard"
  /\ toast' = "none"
  /\ UNCHANGED inserted
  /\ MonitorLeftOut
  /\ UNCHANGED <<now, limiterVars, wakeVars>>

NextDashboard ==
  \/ DashboardSignIn
  \/ UserRefreshed
  \/ \E role \in Roles \cup {"none"} : FetchUserRoleReturns(role)
  \/ \E role \in Roles, ok \in BOOLEAN : AssignRole(role, ok)
  \/ \E page \in {"dashboard", "shipments", "inventory", "reports"} :
       SelectPage(page)
  \/ \E filled \in BOOLEAN, ok \in BOOLEAN : SubmitShipment(filled, ok)
  \/ DashboardSignOut

SpecDashboard == InitFrame /\ [][NextDashboard]_vars

\* C30: a transporter never creates a shipment from the dashboard: the
\* layout holds the Shipments page for a farmer or an administrator only, a
\* click sets currentPage to an entry of the menu of the role only, no
\* render with the role transporter has sent an insert, and handleSubmit
\* answers a transporter with 'Access Denied' and sends nothing.
C30_TransporterCreatesNoShipment ==
  [][/\ MainContent(userRole', currentPage') = "Shipments" =>
          userRole' \in {"farmer", "administrator"}
     /\ currentPage' # currentPage => currentPage' \in MenuIds(userRole)
     /\ "transporter" \notin inserted'
     /\ \A filled \in BOOLEAN, ok \in BOOLEAN :
          handleSubmit("transporter", filled, ok) =
            [toast |-> "Access Denied", insert |-> FALSE]
    ]_vars

\* a farmer created a shipment, then the role became transporter with the
\* Shipments page still selected: the layout holds no page
C30_Witness ==
  /\ AppRenders(user, roleLoading, userRole) = "layout"
  /\ userRole = "transporter"
  /\ currentPage = "shipments"
  /\ MainContent(userRole, currentPage) = "nothing"
  /\ inserted = {"farmer"}
====
